---- MODULE Spec2Model ----
(***************************************************************************)
(* A model of the HTTP/1.1 wire engine of codecrafters-http-server-rust:   *)
(* the case-insensitive HeaderMap (src/header.rs), the RequestReader       *)
(* (src/io/reader.rs), the ResponseBuilder and Response::compress          *)
(* (src/lib.rs), the codec subprocess (src/encoding.rs) and the            *)
(* ResponseWriter (src/io/writer.rs).                                      *)
(*                                                                         *)
(* Bytes are integers 0..255, byte strings are sequences of bytes.         *)
(* Option<T> is a sequence of length <= 1: None == <<>>, Some(v) == <<v>>. *)
(***************************************************************************)
EXTENDS Integers, Sequences, FiniteSets, TLC

VARIABLES
    \* ---- HeaderMap component (src/header.rs)
    hmb,        \* HeaderMapBuilder: the Vec of (name, value) pairs being built
    hm,         \* the built HeaderMap: Option of a sequence of (name, value) pairs
    hmOut,      \* the last operation applied to hm and what it returned
    \* ---- RequestReader component (src/io/reader.rs)
    rpath,      \* which request-reading code runs: "lib" (src/io/reader.rs) or "bin" (src/main.rs)
    wire,       \* every byte the peer sends before it closes the connection
    rpos,       \* number of wire bytes the RequestReader has consumed from its BufReader
    bufd,       \* number of unconsumed bytes held in the BufReader's internal buffer
    rpc,        \* position of read_request
    aux,        \* read_segment: the Vec the current segment is accumulated in
    seglen,     \* read_segment: len
    lastn,      \* read_until: bytes appended by the call in progress
    buf,        \* read_request: the BytesMut buffer
    reqline,    \* the parsed RequestLine: Option of <<method, target, version>>
    rhdrs,      \* read_headers: the HeaderMapBuilder
    rbody,      \* read_body: the bytes read so far
    rneed,      \* read_body: len
    rres,       \* result of read_request: Option of a Request or an error
    segs,       \* what each completed read_segment returned: the count n and buf
    \* ---- Response component (src/lib.rs, src/encoding.rs, src/io/writer.rs)
    req,        \* the Request handed to the handler
    supported,  \* Config::encodings(): the probed set of encodings
    pc,         \* position of the response pipeline
    via,        \* who built the response: the connection handler or a direct caller
    builder,    \* the ResponseBuilder
    ncalls,     \* number of status()/header() calls made on the builder
    resp,       \* the Response (built, then compressed)
    built,      \* the Response as the builder returned it
    child,      \* the codec subprocess
    out,        \* bytes written to the connection's BufWriter, in order
    flushes,    \* number of flushes of the connection's BufWriter
    fsres,      \* ResponseBuilder::file: how the file system answered the call, if it was called
    job,        \* the spawn_blocking closure of SystemEncoder::compress and its JoinHandle
    \* ---- Config::encodings (src/config.rs)
    once,       \* the OnceLock SUPPORTED
    probes,     \* number of executions of get_supported so far
    tpc,        \* position of each task calling Config::encodings
    seen,       \* what each task's call returned
    \* ---- the binary's accept loop (src/main.rs)
    mainpc,     \* position of main's loop
    conns,      \* state of each connection and of its handler task
    \* ---- SystemEncoder::compress and the program, joined by two pipes (src/encoding.rs)
    srv,        \* compress: its position and the body bytes it still has to write
    prog,       \* the program: its position and the output it holds unwritten
    stdinPipe,  \* number of bytes in the pipe to the program's stdin
    stdoutPipe  \* number of bytes in the pipe from the program's stdout

hmVars == <<hmb, hm, hmOut>>
rdVars == <<rpath, wire, rpos, bufd, rpc, aux, seglen, lastn, buf, reqline, rhdrs, rbody, rneed, rres, segs>>
rsVars == <<req, supported, pc, via, builder, ncalls, resp, built, child, out, flushes, fsres, job>>
cfVars == <<once, probes, tpc, seen>>
svVars == <<mainpc, conns>>
ppVars == <<srv, prog, stdinPipe, stdoutPipe>>
vars == <<hmVars, rdVars, rsVars, cfVars, svVars, ppVars>>

----------------------------------------------------------------------------
(* Options and byte-string helpers                                         *)

None == <<>>

Some(v) == <<v>>

IsSome(o) == o # <<>>

Unwrap(o) == o[1]

Min(S) == CHOOSE x \in S : \A y \in S : x <= y

\* Bytes::split_to(at): the first `at` bytes
split_to(s, at) == SubSeq(s, 1, at)

\* what Bytes::split_to(at) leaves in the buffer; also Bytes::split_off(at)'s result
split_off(s, at) == SubSeq(s, at + 1, Len(s))

ends_with(s, t) == Len(s) >= Len(t) /\ SubSeq(s, Len(s) - Len(t) + 1, Len(s)) = t

starts_with(s, t) == Len(s) >= Len(t) /\ SubSeq(s, 1, Len(t)) = t

\* byte strings over alphabet A of length at most n
RECURSIVE SeqsUpTo(_, _)
SeqsUpTo(A, n) ==
    IF n = 0 THEN {<<>>}
    ELSE LET shorter == SeqsUpTo(A, n - 1)
         IN  shorter \cup {Append(s, a) : s \in shorter, a \in A}

\* u8::is_ascii_alphabetic
is_ascii_alphabetic(b) == (65 <= b /\ b <= 90) \/ (97 <= b /\ b <= 122)

\* u8::is_ascii_whitespace: SPACE, HT, LF, FF, CR
is_ascii_whitespace(b) == b \in {32, 9, 10, 12, 13}

\* u8::abs_diff
abs_diff(x, y) == IF x >= y THEN x - y ELSE y - x

\* Iterator::position: the 0-based index of the first byte satisfying P
position(s, P(_)) ==
    LET hits == {i \in 1..Len(s) : P(s[i])}
    IN  IF hits = {} THEN None ELSE Some(Min(hits) - 1)

is_colon(b) == b = 58

is_comma(b) == b = 44

is_LF(b) == b = 10

not_whitespace(b) == ~is_ascii_whitespace(b)

\* u64::to_string: decimal digits, no sign, no leading zero
RECURSIVE to_string(_)
to_string(n) ==
    IF n < 10 THEN <<48 + n>>
    ELSE to_string(n \div 10) \o <<48 + (n % 10)>>

----------------------------------------------------------------------------
(* src/header.rs                                                           *)

ACCEPT_ENCODING == <<65, 99, 99, 101, 112, 116, 45, 69, 110, 99, 111, 100, 105, 110, 103>>

CONTENT_TYPE == <<67, 111, 110, 116, 101, 110, 116, 45, 84, 121, 112, 101>>

CONTENT_LENGTH == <<67, 111, 110, 116, 101, 110, 116, 45, 76, 101, 110, 103, 116, 104>>

CONTENT_ENCODING == <<67, 111, 110, 116, 101, 110, 116, 45, 69, 110, 99, 111, 100, 105, 110, 103>>

TEXT_PLAIN == <<116, 101, 120, 116, 47, 112, 108, 97, 105, 110>>

OCTET_STREAM == <<97, 112, 112, 108, 105, 99, 97, 116, 105, 111, 110, 47, 111, 99, 116, 101, 116, 45, 115, 116, 114, 101, 97, 109>>

CASE_SHIFT == 32

\* a slip that forgets the alphabetic test: any two bytes 32 apart are equal
ignore_case_eq_no_alpha(x, y) == x = y \/ abs_diff(x, y) = CASE_SHIFT

ignore_case_eq(x, y) ==
    x = y \/ (is_ascii_alphabetic(x) /\ is_ascii_alphabetic(y) /\ abs_diff(x, y) = CASE_SHIFT)

compare(data, target) ==
    IF Len(data) # Len(target) THEN FALSE
    ELSE \A i \in 1..Len(data) : ignore_case_eq(data[i], target[i])

\* BytesExt::matches
matches(name, target) == compare(name, target)

\* HeaderMap::get: find_map over the entries in stored order
RECURSIVE find_map(_, _, _)
find_map(entries, key, i) ==
    IF i > Len(entries) THEN None
    ELSE IF matches(entries[i][1], key) THEN Some(entries[i][2])
    ELSE find_map(entries, key, i + 1)

get(headers, key) == find_map(headers, key, 1)

\* HeaderMap::assoc: a new sequence, every matching entry replaced by (key, val)
assoc(headers, key, val) ==
    [i \in 1..Len(headers) |->
        IF matches(headers[i][1], key) THEN <<key, val>> ELSE headers[i]]

\* HeaderMap::insert of a typed header: assoc(H::header_name(), header.into_header_value())
insert(headers, name, value) == assoc(headers, name, value)

\* a slip that merges a repeated name into the entry already there
builder_assoc_merging(entries, name, value) ==
    IF \E i \in 1..Len(entries) : matches(entries[i][1], name)
    THEN [i \in 1..Len(entries) |->
            IF matches(entries[i][1], name) THEN <<entries[i][1], value>> ELSE entries[i]]
    ELSE Append(entries, <<name, value>>)

\* HeaderMapBuilder::assoc: push
builder_assoc(entries, name, value) == Append(entries, <<name, value>>)

\* HeaderMapBuilder::build
builder_build(entries) == entries

----------------------------------------------------------------------------
(* Bounds and input sets of the HeaderMap component                        *)

MaxEntries == 2

\* 'A' 'a' '!': a letter in both cases and a non-letter 32 below 'A'
HmAlpha == {65, 97, 33}

\* names and keys: short strings over HmAlpha, and single bytes around the
\* letter ranges ('@' '`' 'Z' 'z' '[' '{') and outside ASCII (0xC1, 0xE1)
HmNames == SeqsUpTo(HmAlpha, 2) \cup {<<b>> : b \in {64, 96, 90, 122, 91, 123, 193, 225}}

HmValues == {<<120>>, <<121>>}

----------------------------------------------------------------------------
(* Actions of the HeaderMap component                                      *)

HmIdle == [op |-> "none", key |-> <<>>, val |-> <<>>, res |-> <<>>]

\* a slip that writes the new entries into the shared slice
self_after_assoc_in_place(entries, result) == result

\* what a clone of the map taken before assoc(&self, ..) yields after the call:
\* assoc collects its result into a new Arc and leaves the shared slice alone
self_after_assoc(entries, result) == entries

\* HeaderMapBuilder::assoc(name, value); the value pushed names its position
HmbAssoc ==
    /\ hm = None
    /\ Len(hmb) < MaxEntries
    /\ \E name \in HmNames :
         hmb' = builder_assoc(hmb, name, to_string(Len(hmb) + 1))
    /\ UNCHANGED <<hm, hmOut>>
    /\ UNCHANGED <<rdVars, rsVars, cfVars, svVars, ppVars>>

\* HeaderMapBuilder::build
HmbBuild ==
    /\ hm = None
    /\ hm' = Some(builder_build(hmb))
    /\ UNCHANGED <<hmb, hmOut>>
    /\ UNCHANGED <<rdVars, rsVars, cfVars, svVars, ppVars>>

\* HeaderMap::get(key)
HmGet ==
    /\ IsSome(hm)
    /\ hmOut.op = "none"
    /\ \E key \in HmNames :
         hmOut' = [op |-> "get", key |-> key, val |-> <<>>, res |-> get(Unwrap(hm), key)]
    /\ UNCHANGED <<hmb, hm>>
    /\ UNCHANGED <<rdVars, rsVars, cfVars, svVars, ppVars>>

\* HeaderMap::assoc(key, val): returns a new map, self is untouched
HmAssoc ==
    /\ IsSome(hm)
    /\ hmOut.op = "none"
    /\ \E key \in HmNames, val \in HmValues :
         /\ hmOut' = [op |-> "assoc", key |-> key, val |-> val,
                      res |-> assoc(Unwrap(hm), key, val)]
         /\ hm' = Some(self_after_assoc(Unwrap(hm), assoc(Unwrap(hm), key, val)))
    /\ UNCHANGED hmb
    /\ UNCHANGED <<rdVars, rsVars, cfVars, svVars, ppVars>>

\* HeaderMap::insert(header), for a header type whose header_name() is `key`
HmInsert ==
    /\ IsSome(hm)
    /\ hmOut.op = "none"
    /\ \E key \in HmNames, val \in HmValues :
         /\ hmOut' = [op |-> "insert", key |-> key, val |-> val,
                      res |-> insert(Unwrap(hm), key, val)]
         /\ hm' = Some(self_after_assoc(Unwrap(hm), insert(Unwrap(hm), key, val)))
    /\ UNCHANGED hmb
    /\ UNCHANGED <<rdVars, rsVars, cfVars, svVars, ppVars>>

HmInit ==
    /\ hmb = <<>>
    /\ hm = None
    /\ hmOut = HmIdle

----------------------------------------------------------------------------
(* src/io/reader.rs: the pure parts                                        *)

CRLF == <<13, 10>>

\* a slip that skips one separator byte instead of the whole whitespace run
freeze_to_whitespace_one(bytes) ==
    LET p      == position(bytes, is_ascii_whitespace)
        at     == IF IsSome(p) THEN Unwrap(p) ELSE Len(bytes)
    IN  <<split_to(bytes, at), split_off(bytes, at + 1)>>

\* freeze_to_whitespace: <<the token split off, what is left in `bytes`>>
freeze_to_whitespace(bytes) ==
    LET p      == position(bytes, is_ascii_whitespace)
        at     == IF IsSome(p) THEN Unwrap(p) ELSE Len(bytes)
        result == split_to(bytes, at)
        rest   == split_off(bytes, at)
        q      == position(rest, not_whitespace)
    IN  <<result, IF IsSome(q) THEN split_off(rest, Unwrap(q)) ELSE rest>>

\* read_request_line after read_segment returned n: the RequestLine built from
\* the first n - 2 bytes of buf
request_line(b, n) ==
    LET req_line == split_to(b, n - 2)
        m == freeze_to_whitespace(req_line)
        t == freeze_to_whitespace(m[2])
        v == freeze_to_whitespace(t[2])
    IN  <<m[1], t[1], v[1]>>

\* a slip that takes a line without a colon for a header with an empty value
header_line_lenient(b, n) ==
    LET header == split_to(b, n - 2)
        colon  == position(header, is_colon)
    IN  IF header = <<>> THEN [tag |-> "end", name |-> <<>>, value |-> <<>>]
        ELSE IF ~IsSome(colon) THEN [tag |-> "header", name |-> header, value |-> <<>>]
        ELSE LET value == split_off(split_off(header, Unwrap(colon)), 1)
                 nw    == position(value, not_whitespace)
             IN  [tag   |-> "header",
                  name  |-> split_to(header, Unwrap(colon)),
                  value |-> IF IsSome(nw) THEN split_off(value, Unwrap(nw)) ELSE value]

\* read_header after read_segment returned n:
\*   [tag |-> "end"] for the empty segment, [tag |-> "invalid"] without a colon,
\*   [tag |-> "header", name, value] otherwise
header_line(b, n) ==
    LET header == split_to(b, n - 2)
        colon  == position(header, is_colon)
    IN  IF header = <<>> THEN [tag |-> "end", name |-> <<>>, value |-> <<>>]
        ELSE IF ~IsSome(colon) THEN [tag |-> "invalid", name |-> <<>>, value |-> <<>>]
        ELSE LET value == split_off(split_off(header, Unwrap(colon)), 1)
                 nw    == position(value, not_whitespace)
             IN  [tag   |-> "header",
                  name  |-> split_to(header, Unwrap(colon)),
                  value |-> IF IsSome(nw) THEN split_off(value, Unwrap(nw)) ELSE value]

\* usize::from_str: an optional '+', then one or more ASCII digits
RECURSIVE digits_value(_, _)
digits_value(s, acc) ==
    IF s = <<>> THEN acc ELSE digits_value(Tail(s), 10 * acc + (Head(s) - 48))

parse_usize(s) ==
    LET digits == IF s # <<>> /\ Head(s) = 43 THEN Tail(s) ELSE s
    IN  IF digits = <<>> THEN None
        ELSE IF \E i \in 1..Len(digits) : digits[i] < 48 \/ digits[i] > 57 THEN None
        ELSE Some(digits_value(digits, 0))

\* HeaderMap::read::<_, usize>: get, then parse; None on any failure
read_usize(headers, key) ==
    LET value == get(headers, key)
    IN  IF IsSome(value) THEN parse_usize(Unwrap(value)) ELSE None

\* src/main.rs, handle_connection's header loop: content_length after the
\* headers pushed so far, starting from `acc`; a header named exactly
\* "Content-Length" overwrites it with its parsed value
RECURSIVE bin_content_length(_, _)
bin_content_length(headers, acc) ==
    IF headers = <<>> THEN acc
    ELSE bin_content_length(Tail(headers),
             IF Head(headers)[1] = CONTENT_LENGTH THEN parse_usize(Head(headers)[2]) ELSE acc)

\* src/main.rs: the header just parsed is a Content-Length whose value does not parse
bin_invalid_content_length(name, value) == name = CONTENT_LENGTH /\ ~IsSome(parse_usize(value))

\* a slip that ends the segment at any LF
segment_complete_at_lf(n, auxv, len) == n > 0 /\ ends_with(SubSeq(auxv, 1, len), <<10>>)

\* read_segment's loop exit: n > 0 && aux[..len].ends_with(CRLF)
segment_complete(n, auxv, len) == n > 0 /\ ends_with(SubSeq(auxv, 1, len), CRLF)

\* a slip that takes a Content-Length that is no number for the length of its text
content_length_of_text(headers) ==
    LET v == get(headers, CONTENT_LENGTH)
        n == read_usize(headers, CONTENT_LENGTH)
    IN  IF IsSome(n) THEN Unwrap(n) ELSE IF IsSome(v) THEN Len(Unwrap(v)) ELSE 0

\* read_request: headers.read(CONTENT_LENGTH).unwrap_or_default()
content_length_of(headers) ==
    LET n == read_usize(headers, CONTENT_LENGTH)
    IN  IF IsSome(n) THEN Unwrap(n) ELSE 0

----------------------------------------------------------------------------
(* Bounds and input sets of the RequestReader component                    *)

\* the largest number of bytes one read of the socket returns
MaxChunk == 3

\* the longest whitespace run between two tokens, or before a header value
MaxWs == 2

\* the largest Content-Length sent; request tails are up to MaxBody + 1 bytes
MaxBody == 2

\* SPACE, HT, CR, LF
WsAlpha == {32, 9, 13, 10}

HasCRLF(s) == \E i \in 1..(Len(s) - 1) : s[i] = 13 /\ s[i + 1] = 10

\* whitespace runs that do not end the segment they are in
WsRuns == {w \in SeqsUpTo(WsAlpha, MaxWs) : ~HasCRLF(w)}

\* "G", "/" or "/a:", "H"
Methods == {<<71>>}

Targets == {<<47>>, <<47, 97, 58>>}

Versions == {<<72>>}

\* "G / H"
NomLine == <<71, 32, 47, 32, 72>>

\* request lines of three tokens separated by non-empty whitespace runs
Lines ==
    {m \o w1 \o t \o w2 \o v :
        m \in Methods, t \in Targets, v \in Versions, w1 \in WsRuns \ {<<>>}, w2 \in WsRuns \ {<<>>}}

\* header names "A", "" and header values "", "v", "v w", "v ", ":v"
HdrNames == {<<65>>, <<>>}

HdrValues == {<<>>, <<118>>, <<118, 32, 119>>, <<118, 32>>, <<58, 118>>}

\* header lines name ":" whitespace value
HdrLines == {n \o <<58>> \o w \o v : n \in HdrNames, w \in WsRuns, v \in HdrValues}

\* "Content-Length" as sent, in two casings
ClNames == {CONTENT_LENGTH, <<99, 111, 110, 116, 101, 110, 116, 45, 108, 101, 110, 103, 116, 104>>}

\* 'b' and LF
BodyAlpha == {98, 10}

BodyHead(name, n) == NomLine \o CRLF \o name \o <<58, 32>> \o to_string(n) \o CRLF \o CRLF

LineWires == {l \o CRLF \o CRLF : l \in Lines}

HeaderWires == {NomLine \o CRLF \o h \o CRLF \o CRLF : h \in HdrLines}

BodyWires ==
    {BodyHead(name, n) \o tail :
        name \in ClNames, n \in 0..MaxBody, tail \in SeqsUpTo(BodyAlpha, MaxBody + 1)}

\* request lines of fewer than three tokens: "", "G", "G /", "G  "
ShortLines == {<<>>, <<71>>, <<71, 32, 47>>, <<71, 32, 32>>}

ShortWires == {l \o CRLF \o CRLF : l \in ShortLines}

\* two Content-Length headers, in either casing, announcing 1 and 2 bytes in
\* either order, followed by "bb" LF; and a Content-Length that is no number
DupHead(n1, v1, n2, v2) ==
    NomLine \o CRLF \o n1 \o <<58, 32>> \o v1 \o CRLF \o n2 \o <<58, 32>> \o v2 \o CRLF \o CRLF

DupWires ==
    {DupHead(n1, v[1], n2, v[2]) \o <<98, 98, 10>> :
        n1 \in ClNames, n2 \in ClNames, v \in {<<<<49>>, <<50>>>>, <<<<50>>, <<49>>>>}}
    \cup {NomLine \o CRLF \o n \o <<58, 32, 120>> \o CRLF \o CRLF \o <<98>> : n \in ClNames}

\* streams that end early: at once, inside the request line, inside a header
\* line, after a header line
CutWires ==
    {<<>>, <<71, 32>>, NomLine \o CRLF \o <<65, 58, 118>>, NomLine \o CRLF \o <<65, 58, 118>> \o CRLF}

\* a stream that ends early, a header without a colon, and a header without a
\* colon after a valid header ("A:v" or "Content-Length: 1") and before a
\* blank line and a byte "b"
BrokenWires ==
    CutWires \cup {NomLine \o CRLF \o <<65>> \o CRLF \o CRLF}
    \cup {NomLine \o CRLF \o h \o CRLF \o <<65>> \o CRLF \o CRLF \o <<98>> :
            h \in {<<65, 58, 118>>, CONTENT_LENGTH \o <<58, 32, 49>>}}

\* "G /echo/abc H"
EchoLine == <<71, 32, 47, 101, 99, 104, 111, 47, 97, 98, 99, 32, 72>>

\* the echo request without a header, with Accept-Encoding: gzip, or with
\* Content-Length: 1 and the body "b", alone on the connection or followed by
\* a second request; and two requests cut short, in the body and in the
\* request line
PipelinedWires ==
    {EchoLine \o CRLF \o h \o CRLF \o next :
        h \in {<<>>,
               ACCEPT_ENCODING \o <<58, 32>> \o <<103, 122, 105, 112>> \o CRLF,
               CONTENT_LENGTH \o <<58, 32, 49>> \o CRLF \o CRLF \o <<98>>},
        next \in {<<>>, NomLine \o CRLF \o CRLF}}
    \cup {EchoLine \o CRLF \o CONTENT_LENGTH \o <<58, 32, 49>> \o CRLF \o CRLF, <<71, 32>>}

Wires == LineWires \cup ShortWires \cup HeaderWires \cup BodyWires \cup DupWires \cup BrokenWires

----------------------------------------------------------------------------
(* Actions of the RequestReader component (src/io/reader.rs)               *)

NoResult ==
    [tag |-> "none", ctx |-> "", cause |-> "", method |-> <<>>, target |-> <<>>,
     version |-> <<>>, headers |-> <<>>, body |-> <<>>]

Err(ctx, cause) == [NoResult EXCEPT !.tag = "err", !.ctx = ctx, !.cause = cause]

Request(line, headers, body) ==
    [NoResult EXCEPT !.tag = "ok", !.method = line[1], !.target = line[2],
                     !.version = line[3], !.headers = headers, !.body = body]

Reading == rpc \in {"line", "header", "body"}

\* a slip that hands read_exact everything the BufReader holds
read_exact_take_all(buffered, missing) == buffered

\* read_exact: the number of buffered bytes copied into what is still missing
read_exact_take(buffered, missing) == IF buffered < missing THEN buffered ELSE missing

\* the anyhow context read_request puts on an error of the step it is in
RdContext ==
    IF rpath = "lib"
    THEN CASE rpc = "line" -> "request line" [] rpc = "header" -> "headers" [] OTHER -> "body"
    ELSE CASE rpc \in {"line", "header"} -> "read status line" [] OTHER -> "read body"

\* read_segment's loop after read_until returned n with aux = auxv, and, once the
\* segment is complete, the rest of read_request_line or read_header and of
\* read_request up to its next read of the stream
AfterReadUntil(n, auxv) ==
    LET len  == seglen + n
        b    == buf \o auxv
        rest == split_off(split_off(b, len - 2), 2)
        h    == header_line(b, len)
        hdrs == builder_build(rhdrs)
        binl == bin_content_length(rhdrs, None)
        cl   == IF rpath = "lib" THEN content_length_of(hdrs)
                ELSE IF IsSome(binl) THEN Unwrap(binl) ELSE 0
    IN  IF ~segment_complete(n, auxv, len)
        THEN /\ aux' = auxv
             /\ seglen' = len
             /\ lastn' = 0
             /\ UNCHANGED <<rpc, buf, reqline, rhdrs, rbody, rneed, rres, segs>>
        ELSE /\ aux' = <<>>
             /\ segs' = Append(segs, [n |-> len, buf |-> b])
             /\ seglen' = 0
             /\ lastn' = 0
             /\ rbody' = <<>>
             /\ IF rpc = "line"
                THEN /\ reqline' = Some(request_line(b, len))
                     /\ buf' = rest
                     /\ rpc' = "header"
                     /\ UNCHANGED <<rhdrs, rneed, rres>>
                ELSE IF h.tag = "invalid"
                THEN /\ rres' = Err(IF rpath = "lib" THEN "headers" ELSE "invalid header", "invalid header")
                     /\ rpc' = "failed"
                     /\ UNCHANGED <<buf, reqline, rhdrs, rneed>>
                ELSE IF h.tag = "header" /\ rpath = "bin" /\ bin_invalid_content_length(h.name, h.value)
                THEN /\ rres' = Err("invalid Content-Length value", "parse")
                     /\ rpc' = "failed"
                     /\ buf' = rest
                     /\ UNCHANGED <<reqline, rhdrs, rneed>>
                ELSE IF h.tag = "header"
                THEN /\ rhdrs' = builder_assoc(rhdrs, h.name, h.value)
                     /\ buf' = rest
                     /\ UNCHANGED <<rpc, reqline, rneed, rres>>
                ELSE /\ buf' = rest
                     /\ rneed' = cl
                     /\ rpc' = IF cl = 0 THEN "done" ELSE "body"
                     /\ rres' = IF cl = 0 THEN Request(Unwrap(reqline), hdrs, <<>>) ELSE rres
                     /\ UNCHANGED <<reqline, rhdrs>>

\* BufReader::fill_buf with an empty buffer: one read of the socket returns k bytes
RdSockRead ==
    /\ Reading
    /\ bufd = 0
    /\ rpos < Len(wire)
    /\ \E k \in 1..MaxChunk :
         /\ k <= Len(wire) - rpos
         /\ bufd' = k
    /\ UNCHANGED <<rpath, segs, wire, rpos, rpc, aux, seglen, lastn, buf, reqline, rhdrs, rbody, rneed, rres>>
    /\ UNCHANGED <<hmVars, rsVars, cfVars, svVars, ppVars>>

\* a read of the socket fails: the error leaves read_request through `?`
RdSockError ==
    /\ Reading
    /\ bufd = 0
    /\ rres' = Err(RdContext, "io")
    /\ rpc' = "failed"
    /\ UNCHANGED <<rpath, segs, wire, rpos, bufd, aux, seglen, lastn, buf, reqline, rhdrs, rbody, rneed>>
    /\ UNCHANGED <<hmVars, rsVars, cfVars, svVars, ppVars>>

\* read_until(b'\n') on buffered bytes: up to and including the first LF
RdUntil ==
    /\ rpc \in {"line", "header"}
    /\ bufd > 0
    /\ LET available == SubSeq(wire, rpos + 1, rpos + bufd)
           i    == position(available, is_LF)
           used == IF IsSome(i) THEN Unwrap(i) + 1 ELSE bufd
           auxv == aux \o SubSeq(available, 1, used)
       IN  /\ rpos' = rpos + used
           /\ bufd' = bufd - used
           /\ IF IsSome(i)
              THEN AfterReadUntil(lastn + used, auxv)
              ELSE /\ aux' = auxv
                   /\ lastn' = lastn + used
                   /\ UNCHANGED <<rpc, seglen, buf, reqline, rhdrs, rbody, rneed, rres, segs>>
    /\ UNCHANGED <<rpath, wire>>
    /\ UNCHANGED <<hmVars, rsVars, cfVars, svVars, ppVars>>

\* read_until at end of stream: fill_buf is empty, the call returns what it has
RdUntilEof ==
    /\ rpc \in {"line", "header"}
    /\ bufd = 0
    /\ rpos = Len(wire)
    /\ AfterReadUntil(lastn, aux)
    /\ UNCHANGED <<rpath, wire, rpos, bufd>>
    /\ UNCHANGED <<hmVars, rsVars, cfVars, svVars, ppVars>>

\* read_exact on buffered bytes: copies no more than is still missing
RdExact ==
    /\ rpc = "body"
    /\ bufd > 0
    /\ LET missing == rneed - Len(rbody)
           k       == read_exact_take(bufd, missing)
           filled  == rbody \o SubSeq(wire, rpos + 1, rpos + k)
       IN  /\ rpos' = rpos + k
           /\ bufd' = bufd - k
           /\ rbody' = filled
           /\ IF Len(filled) >= rneed
              THEN /\ rres' = Request(Unwrap(reqline), builder_build(rhdrs), SubSeq(filled, 1, rneed))
                   /\ rpc' = "done"
              ELSE UNCHANGED <<rres, rpc>>
    /\ UNCHANGED <<rpath, segs, wire, aux, seglen, lastn, buf, reqline, rhdrs, rneed>>
    /\ UNCHANGED <<hmVars, rsVars, cfVars, svVars, ppVars>>

\* read_exact at end of stream: UnexpectedEof
RdExactEof ==
    /\ rpc = "body"
    /\ bufd = 0
    /\ rpos = Len(wire)
    /\ rres' = Err("body", "unexpected eof")
    /\ rpc' = "failed"
    /\ UNCHANGED <<rpath, segs, wire, rpos, bufd, aux, seglen, lastn, buf, reqline, rhdrs, rbody, rneed>>
    /\ UNCHANGED <<hmVars, rsVars, cfVars, svVars, ppVars>>

\* RequestReader::new and the first line of read_request
RdStart ==
    /\ rpos = 0
    /\ bufd = 0
    /\ rpc = "line"
    /\ aux = <<>>
    /\ seglen = 0
    /\ lastn = 0
    /\ buf = <<>>
    /\ reqline = None
    /\ rhdrs = <<>>
    /\ rbody = <<>>
    /\ rneed = 0
    /\ rres = NoResult
    /\ segs = <<>>

RdInit ==
    /\ wire \in Wires
    /\ RdStart

\* the component at rest, for the specifications of the other components
RdIdle ==
    /\ wire = <<>>
    /\ rpos = 0
    /\ bufd = 0
    /\ rpc = "idle"
    /\ aux = <<>>
    /\ seglen = 0
    /\ lastn = 0
    /\ buf = <<>>
    /\ reqline = None
    /\ rhdrs = <<>>
    /\ rbody = <<>>
    /\ rneed = 0
    /\ rres = NoResult
    /\ segs = <<>>
    /\ rpath = "lib"

RdNext == RdSockRead \/ RdSockError \/ RdUntil \/ RdUntilEof \/ RdExact \/ RdExactEof

----------------------------------------------------------------------------
(* src/encoding.rs and the negotiation of src/header.rs                    *)

GZIP == <<103, 122, 105, 112>>

COMPRESS == <<99, 111, 109, 112, 114, 101, 115, 115>>

DEFLATE == <<100, 101, 102, 108, 97, 116, 101>>

BR == <<98, 114>>

ZSTD == <<122, 115, 116, 100>>

\* Encoding::iter, in declaration order
Encodings == <<"Gzip", "Compress", "Deflate", "Br", "Zstd">>

\* From<Encoding> for Bytes
encoding_bytes(enc) ==
    CASE enc = "Gzip" -> GZIP
      [] enc = "Compress" -> COMPRESS
      [] enc = "Deflate" -> DEFLATE
      [] enc = "Br" -> BR
      [] enc = "Zstd" -> ZSTD

\* TryFrom<&[u8]> for Encoding: an exact match of the wire token
encoding_try_from(bytes) ==
    LET hits == {i \in 1..Len(Encodings) : encoding_bytes(Encodings[i]) = bytes}
    IN  IF hits = {} THEN None ELSE Some(Encodings[Min(hits)])

\* SystemEncoder::program
program(enc) ==
    CASE enc = "Gzip" -> Some("gzip")
      [] enc = "Compress" -> None
      [] enc = "Deflate" -> None
      [] enc = "Br" -> Some("brotli")
      [] enc = "Zstd" -> Some("zstd")

\* SystemEncoder::command: the program and its fixed arguments
command(enc) ==
    CASE enc = "Gzip" -> Some(<<"gzip", "-q", "-c">>)
      [] enc = "Compress" -> None
      [] enc = "Deflate" -> None
      [] enc = "Br" -> Some(<<"brotli", "-c">>)
      [] enc = "Zstd" -> Some(<<"zstd", "-q", "-c">>)

\* From<Bytes> for AcceptEncoding: split at each comma, skip the whitespace
\* after it, keep the tokens that name an encoding
RECURSIVE accept_encoding_from(_, _)
accept_encoding_from(value, encs) ==
    LET pos == position(value, is_comma)
    IN  IF IsSome(pos)
        THEN LET enc    == split_to(value, Unwrap(pos))
                 after  == split_off(split_off(value, Unwrap(pos)), 1)
                 at     == position(after, not_whitespace)
                 rest   == IF IsSome(at) THEN split_off(after, Unwrap(at)) ELSE after
                 parsed == encoding_try_from(enc)
             IN  accept_encoding_from(rest, IF IsSome(parsed) THEN Append(encs, Unwrap(parsed)) ELSE encs)
        ELSE LET parsed == encoding_try_from(value)
             IN  IF IsSome(parsed) THEN Append(encs, Unwrap(parsed)) ELSE encs

\* a slip that takes the client's last acceptable encoding instead of the first
select_last(encs, supp) ==
    LET hits == {i \in 1..Len(encs) : encs[i] \in supp}
    IN  IF hits = {} THEN None ELSE Some(encs[CHOOSE i \in hits : \A j \in hits : j <= i])

\* AcceptEncoding::select: the first encoding of the list that is supported
select(encs, supp) ==
    LET hits == {i \in 1..Len(encs) : encs[i] \in supp}
    IN  IF hits = {} THEN None ELSE Some(encs[Min(hits)])

\* HeaderMap::extract::<AcceptEncoding>
extract_accept_encoding(headers) ==
    LET v == get(headers, ACCEPT_ENCODING)
    IN  IF IsSome(v) THEN Some(accept_encoding_from(Unwrap(v), <<>>)) ELSE None

\* HeaderMap::extract::<ContentEncoding>
extract_content_encoding(headers) ==
    LET v == get(headers, CONTENT_ENCODING)
    IN  IF IsSome(v) THEN encoding_try_from(Unwrap(v)) ELSE None

\* "include"
INCLUDE == <<105, 110, 99, 108, 117, 100, 101>>

\* str::split('\n'): the pieces between the line feeds, in order
RECURSIVE split_lines(_, _)
split_lines(s, cur) ==
    IF s = <<>> THEN <<cur>>
    ELSE IF Head(s) = 10 THEN <<cur>> \o split_lines(Tail(s), <<>>)
    ELSE split_lines(Tail(s), Append(cur, Head(s)))

\* str::split_once(':'): what lies before and after the first colon
split_once(s) ==
    LET colon == position(s, is_colon)
    IN  IF IsSome(colon)
        THEN Some(<<split_to(s, Unwrap(colon)), split_off(s, Unwrap(colon) + 1)>>)
        ELSE None

\* char::is_whitespace on ASCII: HT, LF, VT, FF, CR, SPACE
is_whitespace(b) == b \in {9, 10, 11, 12, 13, 32}

\* str::trim(..).is_empty()
trim_is_empty(s) == \A i \in 1..Len(s) : is_whitespace(s[i])

\* str::contains
contains(s, pat) == \E i \in 0..(Len(s) - Len(pat)) : SubSeq(s, i + 1, i + Len(pat)) = pat

\* get_supported's filter_map: the line reports a binary for the encoding
reports_binary(line) ==
    LET parts == split_once(line)
    IN  /\ IsSome(parts)
        /\ ~trim_is_empty(Unwrap(parts)[2])
        /\ ~contains(Unwrap(parts)[2], INCLUDE)

\* the encodings paired position by position with the lines of the output
\* (zip stops at the shorter of the two) whose line reports a binary
zip_supported(encs, lines) ==
    {encs[i] : i \in {j \in 1..Len(encs) : j <= Len(lines) /\ reports_binary(lines[j])}}

\* how get_supported ends in an Err: whereis cannot be run, or prints invalid UTF-8
ProbeErr == [ok |-> FALSE, set |-> {}]

\* a slip that asks about every encoding, with or without a program
get_supported_unfiltered(run) ==
    IF run.failed THEN ProbeErr
    ELSE [ok |-> TRUE, set |-> zip_supported(Encodings, split_lines(run.stdout, <<>>))]

\* get_supported, given how the run of whereis ends: run = [failed, stdout]
get_supported(run) ==
    IF run.failed THEN ProbeErr
    ELSE [ok  |-> TRUE,
          set |-> zip_supported(SelectSeq(Encodings, LAMBDA enc : IsSome(program(enc))),
                                split_lines(run.stdout, <<>>))]

\* the longest output of whereis, in lines
MaxLines == 3

\* lines whereis can print: "g: /g", "g:", "g: ", "g", "g: /include", ""
WhereisLines ==
    {<<103, 58, 32, 47, 103>>, <<103, 58>>, <<103, 58, 32>>, <<103>>,
     <<103, 58, 32, 47>> \o INCLUDE, <<>>}

\* the lines joined by line feeds
RECURSIVE JoinLines(_)
JoinLines(lines) ==
    IF lines = <<>> THEN <<>>
    ELSE IF Len(lines) = 1 THEN lines[1]
    ELSE lines[1] \o <<10>> \o JoinLines(Tail(lines))

\* the runs of whereis: it cannot be run or prints invalid UTF-8, or it prints
\* up to MaxLines lines
WhereisRuns ==
    {[failed |-> TRUE, stdout |-> <<>>]}
    \cup {[failed |-> FALSE, stdout |-> JoinLines(l)] : l \in SeqsUpTo(WhereisLines, MaxLines)}

\* how get_supported can end
ProbeOutcomes == {get_supported(run) : run \in WhereisRuns}

\* the sets get_supported can return
ProbeResults == {r.set : r \in {o \in ProbeOutcomes : o.ok}}

----------------------------------------------------------------------------
(* src/body.rs                                                             *)

\* Body::Bytes(bytes)
BytesBody(bytes) == [kind |-> "bytes", bytes |-> bytes, len |-> Len(bytes)]

\* Body::File: the content of the file and the size its metadata reported
FileBody(content) == [kind |-> "file", bytes |-> content, len |-> Len(content)]

\* Body::empty
EmptyBody == BytesBody(<<>>)

\* Body::content_length: ContentLength::from(self.len())
content_length(body) == to_string(body.len)

----------------------------------------------------------------------------
(* src/lib.rs: StatusCode, Response and ResponseBuilder                    *)

OK == 200

CREATED == 201

BAD_REQUEST == 400

NOT_FOUND == 404

INTERNAL_SERVER_ERROR == 500

\* StatusCode::as_str
as_str(code) ==
    CASE code = OK -> <<79, 75>>
      [] code = CREATED -> <<67, 114, 101, 97, 116, 101, 100>>
      [] code = BAD_REQUEST -> <<66, 97, 100, 32, 82, 101, 113, 117, 101, 115, 116>>
      [] code = NOT_FOUND -> <<78, 111, 116, 32, 70, 111, 117, 110, 100>>
      [] code = INTERNAL_SERVER_ERROR ->
           <<73, 110, 116, 101, 114, 110, 97, 108, 32, 83, 101, 114, 118, 101, 114, 32, 69, 114, 114, 111, 114>>

\* HashMap::insert on a map held as a set of (key, value) pairs: keys are
\* compared byte for byte
hash_insert(map, k, v) == {e \in map : e[1] # k} \cup {<<k, v>>}

\* the orders in which iterating a HashMap can yield its entries
IterOrders(map) ==
    {o \in [1..Cardinality(map) -> map] : \A i, j \in 1..Cardinality(map) : o[i] = o[j] => i = j}

\* a slip that records the client's first recognised encoding, supported or not
from_request_unchecked(request, supp) ==
    LET ae == extract_accept_encoding(request.headers)
        ce == IF IsSome(ae) /\ Unwrap(ae) # <<>> THEN Some(Unwrap(ae)[1]) ELSE None
    IN  [version |-> request.version,
         status  |-> OK,
         headers |-> IF IsSome(ce) THEN {<<CONTENT_ENCODING, encoding_bytes(Unwrap(ce))>>} ELSE {},
         body    |-> <<>>]

\* Response::from_request
from_request(request, supp) ==
    LET ae == extract_accept_encoding(request.headers)
        ce == IF IsSome(ae) THEN select(Unwrap(ae), supp) ELSE None
    IN  [version |-> request.version,
         status  |-> OK,
         headers |-> IF IsSome(ce) THEN {<<CONTENT_ENCODING, encoding_bytes(Unwrap(ce))>>} ELSE {},
         body    |-> <<>>]

\* ResponseBuilder::status
status(b, code) == [b EXCEPT !.status = code]

\* ResponseBuilder::header
header(b, name, value) == [b EXCEPT !.headers = hash_insert(b.headers, name, value)]

\* ResponseBuilder::build_response: the responses it can return, one for each
\* order HeaderMap::from_iter can draw from the HashMap
build_response(version, code, headers, body) ==
    {[version |-> version, status |-> code, headers |-> o, body |-> body] :
        o \in IterOrders(hash_insert(headers, CONTENT_LENGTH, content_length(body)))}

\* ResponseBuilder::build
build(b) == build_response(b.version, b.status, b.headers, BytesBody(b.body))

\* ResponseBuilder::plain
plain(b, body) ==
    LET b1 == header(b, CONTENT_TYPE, TEXT_PLAIN)
    IN  build_response(b1.version, b1.status, b1.headers, body)

\* ResponseBuilder::empty
empty(b) == plain(b, EmptyBody)

\* a slip that answers every file error with 404
file_errors_as_404(b, fs) ==
    IF fs.open # "ok" \/ fs.meta # "ok" THEN empty(status(b, NOT_FOUND))
    ELSE LET b1 == header(b, CONTENT_TYPE, OCTET_STREAM)
         IN  build_response(b1.version, b1.status, b1.headers, FileBody(fs.content))

\* ResponseBuilder::file, given how opening the file and querying its metadata
\* end: fs = [open, meta, content], each of open and meta one of
\* "ok", "not_found", "denied", "other"
file(b, fs) ==
    IF fs.open \in {"not_found", "denied"} THEN empty(status(b, NOT_FOUND))
    ELSE IF fs.open # "ok" THEN empty(status(b, INTERNAL_SERVER_ERROR))
    ELSE IF fs.meta \in {"not_found", "denied"} THEN empty(status(b, NOT_FOUND))
    ELSE IF fs.meta # "ok" THEN empty(status(b, INTERNAL_SERVER_ERROR))
    ELSE LET b1 == header(b, CONTENT_TYPE, OCTET_STREAM)
         IN  build_response(b1.version, b1.status, b1.headers, FileBody(fs.content))

\* upload_file, given how creating and writing the file end
upload_file(request, supp, up) ==
    LET r == from_request(request, supp)
    IN  IF up = "ok" THEN build(status(r, CREATED))
        ELSE empty(status(r, INTERNAL_SERVER_ERROR))


\* "/", "/user-agent", "/user-agent/", "user-agent", "/files", "/files/", "/echo", "/echo/"
ROOT == <<47>>

USER_AGENT_PATH == <<47, 117, 115, 101, 114, 45, 97, 103, 101, 110, 116>>

USER_AGENT_KEY == <<117, 115, 101, 114, 45, 97, 103, 101, 110, 116>>

FILES == <<47, 102, 105, 108, 101, 115>>

ECHO == <<47, 101, 99, 104, 111>>

\* <[u8]>::strip_prefix
strip_prefix(s, prefix) == IF starts_with(s, prefix) THEN Some(split_off(s, Len(prefix))) ELSE None

\* handle_connection: the request takes the arm that calls ResponseBuilder::file
serves_file(request, is_file) ==
    LET f == strip_prefix(request.target, Append(FILES, 47))
    IN  /\ starts_with(request.target, FILES)
        /\ request.method = "Get"
        /\ IsSome(f) /\ Unwrap(f) # <<>>
        /\ is_file

\* handle_connection: the responses the router can build for a request, given
\* the file system's answers (is_file, fs) and how an upload ends (up)
route(request, supp, is_file, fs, up) ==
    LET url == request.target
        r   == from_request(request, supp)
    IN  IF url = ROOT THEN build(status(r, OK))
        ELSE IF url \in {USER_AGENT_PATH, Append(USER_AGENT_PATH, 47)}
        THEN LET user_agent == get(request.headers, USER_AGENT_KEY)
             IN  IF IsSome(user_agent)
                 THEN plain(status(r, OK), BytesBody(Unwrap(user_agent)))
                 ELSE build(status(r, NOT_FOUND))
        ELSE IF starts_with(url, FILES)
        THEN LET f     == strip_prefix(url, Append(FILES, 47))
                 named == IsSome(f) /\ Unwrap(f) # <<>>
             IN  IF request.method = "Get" /\ named /\ is_file THEN file(status(r, OK), fs)
                 ELSE IF request.method = "Get" THEN build(status(r, NOT_FOUND))
                 ELSE IF named THEN upload_file(request, supp, up)
                 ELSE build(status(r, BAD_REQUEST))
        ELSE IF starts_with(url, ECHO)
        THEN LET p   == strip_prefix(url, Append(ECHO, 47))
                 msg == IF IsSome(p) THEN Unwrap(p) ELSE <<>>
             IN  plain(status(r, OK), BytesBody(msg))
        ELSE build(status(r, NOT_FOUND))

\* anyhow's Display of the errors SystemEncoder::compress returns: the outermost context
NOT_CONFIGURED == <<112, 114, 111, 103, 114, 97, 109, 32, 105, 115, 32, 110, 111, 116, 32, 99, 111, 110, 102, 105, 103, 117, 114, 101, 100>>

SPAWN_PROGRAM == <<115, 112, 97, 119, 110, 32, 112, 114, 111, 103, 114, 97, 109>>

WRITE_INPUT == <<119, 114, 105, 116, 101, 32, 112, 114, 111, 103, 114, 97, 109, 32, 105, 110, 112, 117, 116>>

FLUSH_INPUT == <<102, 108, 117, 115, 104, 32, 112, 114, 111, 103, 114, 97, 109, 32, 105, 110, 112, 117, 116>>

WAIT_OUTPUT == <<119, 97, 105, 116, 32, 102, 111, 114, 32, 112, 114, 111, 103, 114, 97, 109, 32, 111, 117, 116, 112, 117, 116>>

\* a slip that reports a compression error under the response's own status
error_response_keeps_status(r, text) ==
    [version |-> r.version,
     status  |-> r.status,
     headers |-> builder_build(builder_assoc(builder_assoc(<<>>, CONTENT_TYPE, TEXT_PLAIN),
                                             CONTENT_LENGTH, content_length(BytesBody(text)))),
     body    |-> BytesBody(text)]

\* a slip that carries the response's Content-Encoding over to the error response
error_response_keeps_encoding(r, text) ==
    [version |-> r.version,
     status  |-> INTERNAL_SERVER_ERROR,
     headers |-> builder_build(builder_assoc(builder_assoc(
                     SelectSeq(r.headers, LAMBDA h : matches(h[1], CONTENT_ENCODING)),
                     CONTENT_TYPE, TEXT_PLAIN), CONTENT_LENGTH, content_length(BytesBody(text)))),
     body    |-> BytesBody(text)]

\* Response::compress, the error arm: a 500 text/plain response carrying the error text
error_response(r, text) ==
    [version |-> r.version,
     status  |-> INTERNAL_SERVER_ERROR,
     headers |-> builder_build(builder_assoc(builder_assoc(<<>>, CONTENT_TYPE, TEXT_PLAIN),
                                             CONTENT_LENGTH, content_length(BytesBody(text)))),
     body    |-> BytesBody(text)]

\* a slip that leaves the Content-Length of the uncompressed body in place
compressed_response_stale_length(r, stdout) ==
    [version |-> r.version,
     status  |-> r.status,
     headers |-> r.headers,
     body    |-> BytesBody(stdout)]

\* Response::compress, the success arm: the program's stdout becomes the body
compressed_response(r, stdout) ==
    [version |-> r.version,
     status  |-> r.status,
     headers |-> assoc(r.headers, CONTENT_LENGTH, content_length(BytesBody(stdout))),
     body    |-> BytesBody(stdout)]

\* SystemEncoder::compress after wait_with_output returned: a non-zero exit
\* status is logged, and stdout is the body either way
compress_output(r, code, stdout) == compressed_response(r, stdout)

----------------------------------------------------------------------------
(* src/io/writer.rs                                                        *)

\* write_status_line
status_line(version, code) == version \o <<32>> \o to_string(code) \o <<32>> \o as_str(code) \o CRLF

\* write_header
header_bytes(name, value) == name \o <<58, 32>> \o value \o CRLF

\* write_headers: every header in stored order, then the blank line
RECURSIVE headers_from(_, _)
headers_from(headers, i) ==
    IF i > Len(headers) THEN CRLF
    ELSE header_bytes(headers[i][1], headers[i][2]) \o headers_from(headers, i + 1)

\* a slip that leaves out the blank line after the headers
headers_bytes_unterminated(headers) ==
    LET all == headers_from(headers, 1)
    IN  SubSeq(all, 1, Len(all) - 2)

headers_bytes(headers) == headers_from(headers, 1)

\* write_response's match on the body: nothing for an empty body
body_bytes(body) == IF body.len = 0 THEN <<>> ELSE body.bytes

----------------------------------------------------------------------------
(* Bounds and input sets of the Response component                         *)

\* the longest list of tokens in an Accept-Encoding value
MaxTokens == 2

\* the number of status() and header() calls a direct caller makes on a builder
MaxCalls == 2

\* "HTTP/1.1"
HTTP11 == <<72, 84, 84, 80, 47, 49, 46, 49>>

\* "gzip", "br", "deflate" and the unknown token "x"
AeTokens == {GZIP, BR, DEFLATE, <<120>>}

TokenLists == SeqsUpTo(AeTokens, MaxTokens) \ {<<>>}

\* the tokens joined by ", "
RECURSIVE Join(_)
Join(tokens) ==
    IF Len(tokens) = 1 THEN tokens[1]
    ELSE tokens[1] \o <<44, 32>> \o Join(Tail(tokens))

\* "", "gzip,br", "gzip ,br", "br, "
AeOdd == {<<>>, GZIP \o <<44>> \o BR, GZIP \o <<32, 44>> \o BR, BR \o <<44, 32>>}

AeValues == {Join(l) : l \in TokenLists} \cup AeOdd

Req(method, target, headers) ==
    [method |-> method, target |-> target, version |-> HTTP11, headers |-> headers]

\* "/echo/abc"
ECHO_ABC == <<47, 101, 99, 104, 111, 47, 97, 98, 99>>

\* GET /echo/abc with every Accept-Encoding value, with none, and with the
\* header name in lower case
NegotiationReqs ==
    {Req("Get", ECHO_ABC, h) :
        h \in {<<>>} \cup {<<<<ACCEPT_ENCODING, v>>>> : v \in AeValues}
              \cup {<<<<<<97, 99, 99, 101, 112, 116, 45, 101, 110, 99, 111, 100, 105, 110, 103>>, GZIP>>>>}}

\* "/", "/user-agent", "/files/f", "/files", "/echo", "/x"
RouteTargets ==
    {ROOT, USER_AGENT_PATH, FILES \o <<47, 102>>, FILES, ECHO, <<47, 120>>}

\* no header, Accept-Encoding: gzip, User-Agent: ua
RouteHeaders ==
    {<<>>, <<<<ACCEPT_ENCODING, GZIP>>>>, <<<<<<85, 115, 101, 114, 45, 65, 103, 101, 110, 116>>, <<117, 97>>>>>>}

RouteReqs == {Req(m, t, h) : m \in {"Get", "Post"}, t \in RouteTargets, h \in RouteHeaders}

Requests == NegotiationReqs \cup RouteReqs

\* the requests a direct caller of the builder starts from
ApiReqs == {Req("Get", ROOT, h) : h \in {<<>>, <<<<ACCEPT_ENCODING, GZIP>>>>}}

\* headers a direct caller sets: "Content-Length: 9", "content-length: 9",
\* "Content-Encoding: deflate"
ApiHeaders ==
    {<<CONTENT_LENGTH, <<57>>>>,
     <<<<99, 111, 110, 116, 101, 110, 116, 45, 108, 101, 110, 103, 116, 104>>, <<57>>>>,
     <<CONTENT_ENCODING, DEFLATE>>}

ApiCodes == {OK, NOT_FOUND}

\* "", "abc"
ApiBodies == {<<>>, <<97, 98, 99>>}

\* how opening a file and querying its metadata can end, and the file's content
FsOutcomes ==
    {[open |-> o, meta |-> m, content |-> c] :
        o \in {"ok", "not_found", "denied", "other"},
        m \in {"ok", "not_found", "denied", "other"},
        c \in {<<>>, <<102, 103>>}}

FsAnswers == {fs \in FsOutcomes : (fs.open # "ok" => fs.meta = "ok") /\ (fs.meta # "ok" \/ fs.open # "ok" => fs.content = <<>>)}

UploadOutcomes == {"ok", "open_failed", "write_failed"}

\* what the codec program can print: nothing, one byte, two bytes
Stdouts == {<<>>, <<31>>, <<31, 139>>}

ExitCodes == {0, 1}

----------------------------------------------------------------------------
(* The HeaderMap component, continued: typed extraction                    *)

\* HeaderMap::extract::<AcceptEncoding> hands a header value to
\* From<Bytes> for AcceptEncoding
HmAcceptEncoding ==
    /\ IsSome(hm)
    /\ hmOut.op = "none"
    /\ \E value \in AeValues :
         hmOut' = [op |-> "accept-encoding", key |-> ACCEPT_ENCODING, val |-> value,
                   res |-> accept_encoding_from(value, <<>>)]
    /\ UNCHANGED <<hmb, hm>>
    /\ UNCHANGED <<rdVars, rsVars, cfVars, svVars, ppVars>>

HmNext == HmbAssoc \/ HmbBuild \/ HmGet \/ HmAssoc \/ HmInsert \/ HmAcceptEncoding

----------------------------------------------------------------------------
(* Actions of the Response component                                       *)

NoBuilder == [version |-> <<>>, status |-> OK, headers |-> {}, body |-> <<>>]

NoResponse == [version |-> <<>>, status |-> OK, headers |-> <<>>, body |-> EmptyBody]

NoChild == [state |-> "none", stdin |-> <<>>, code |-> 0, stdout |-> <<>>, failed |-> ""]

\* handle_connection: the router builds the response for the request
RsRoute ==
    /\ pc = "start"
    /\ \E is_file \in BOOLEAN, fs \in FsAnswers, up \in UploadOutcomes :
         \E r \in route(req, supported, is_file, fs, up) :
            /\ resp' = r
            /\ built' = r
            /\ fsres' = IF serves_file(req, is_file) THEN Some(fs) ELSE None
    /\ pc' = "built"
    /\ via' = "handler"
    /\ UNCHANGED <<job, req, supported, builder, ncalls, child, out, flushes>>
    /\ UNCHANGED <<hmVars, rdVars, cfVars, svVars, ppVars>>

\* a direct caller: Response::from_request
RsApiFromRequest ==
    /\ pc = "start"
    /\ req \in ApiReqs
    /\ builder' = from_request(req, supported)
    /\ pc' = "building"
    /\ via' = "api"
    /\ UNCHANGED <<fsres, job, req, supported, ncalls, resp, built, child, out, flushes>>
    /\ UNCHANGED <<hmVars, rdVars, cfVars, svVars, ppVars>>

\* a direct caller: ResponseBuilder::status
RsApiStatus ==
    /\ pc = "building"
    /\ ncalls < MaxCalls
    /\ \E code \in ApiCodes : builder' = status(builder, code)
    /\ ncalls' = ncalls + 1
    /\ UNCHANGED <<fsres, job, req, supported, pc, via, resp, built, child, out, flushes>>
    /\ UNCHANGED <<hmVars, rdVars, cfVars, svVars, ppVars>>

\* a direct caller: ResponseBuilder::header
RsApiHeader ==
    /\ pc = "building"
    /\ ncalls < MaxCalls
    /\ \E h \in ApiHeaders : builder' = header(builder, h[1], h[2])
    /\ ncalls' = ncalls + 1
    /\ UNCHANGED <<fsres, job, req, supported, pc, via, resp, built, child, out, flushes>>
    /\ UNCHANGED <<hmVars, rdVars, cfVars, svVars, ppVars>>

\* a direct caller: ResponseBuilder::build
RsApiBuild ==
    /\ pc = "building"
    /\ \E r \in build(builder) :
         /\ resp' = r
         /\ built' = r
    /\ pc' = "built"
    /\ UNCHANGED <<fsres, job, req, supported, via, builder, ncalls, child, out, flushes>>
    /\ UNCHANGED <<hmVars, rdVars, cfVars, svVars, ppVars>>

\* a direct caller: ResponseBuilder::plain
RsApiPlain ==
    /\ pc = "building"
    /\ \E body \in ApiBodies :
         \E r \in plain(builder, BytesBody(body)) :
            /\ resp' = r
            /\ built' = r
    /\ pc' = "built"
    /\ UNCHANGED <<fsres, job, req, supported, via, builder, ncalls, child, out, flushes>>
    /\ UNCHANGED <<hmVars, rdVars, cfVars, svVars, ppVars>>

\* a direct caller: ResponseBuilder::empty
RsApiEmpty ==
    /\ pc = "building"
    /\ \E r \in empty(builder) :
         /\ resp' = r
         /\ built' = r
    /\ pc' = "built"
    /\ UNCHANGED <<fsres, job, req, supported, via, builder, ncalls, child, out, flushes>>
    /\ UNCHANGED <<hmVars, rdVars, cfVars, svVars, ppVars>>

\* a direct caller: ResponseBuilder::file
RsApiFile ==
    /\ pc = "building"
    /\ \E fs \in FsAnswers :
         \E r \in file(builder, fs) :
            /\ resp' = r
            /\ built' = r
            /\ fsres' = Some(fs)
    /\ pc' = "built"
    /\ UNCHANGED <<job, req, supported, via, builder, ncalls, child, out, flushes>>
    /\ UNCHANGED <<hmVars, rdVars, cfVars, svVars, ppVars>>

\* Response::compress without a Content-Encoding it can read: the response as it is
RsCompressSkip ==
    /\ pc = "built"
    /\ ~IsSome(extract_content_encoding(resp.headers))
    /\ pc' = "ready"
    /\ UNCHANGED <<fsres, job, req, supported, via, builder, ncalls, resp, built, child, out, flushes>>
    /\ UNCHANGED <<hmVars, rdVars, cfVars, svVars, ppVars>>

\* SystemEncoder::compress for an encoding without a command
RsCompressNoProgram ==
    /\ pc = "built"
    /\ LET ce == extract_content_encoding(resp.headers)
       IN  /\ IsSome(ce)
           /\ ~IsSome(command(Unwrap(ce)))
    /\ resp' = error_response(resp, NOT_CONFIGURED)
    /\ pc' = "ready"
    /\ UNCHANGED <<fsres, job, req, supported, via, builder, ncalls, built, child, out, flushes>>
    /\ UNCHANGED <<hmVars, rdVars, cfVars, svVars, ppVars>>

\* SystemEncoder::compress: spawn_blocking(cmd.spawn()), which succeeds or fails
RsSpawn ==
    /\ pc = "built"
    /\ LET ce == extract_content_encoding(resp.headers)
       IN  /\ IsSome(ce)
           /\ IsSome(command(Unwrap(ce)))
    /\ \E ok \in BOOLEAN :
         IF ok
         THEN /\ child' = [NoChild EXCEPT !.state = "running"]
              /\ pc' = IF resp.body.kind = "bytes" THEN "feed" ELSE "wait"
              /\ UNCHANGED resp
         ELSE /\ child' = [NoChild EXCEPT !.failed = "spawn"]
              /\ resp' = error_response(resp, SPAWN_PROGRAM)
              /\ pc' = "ready"
    /\ UNCHANGED <<fsres, job, req, supported, via, builder, ncalls, built, out, flushes>>
    /\ UNCHANGED <<hmVars, rdVars, cfVars, svVars, ppVars>>

\* a slip that closes the program's input without writing the body
write_input_skipped(c, bytes) == c

\* input.write_all(&bytes) and flush: the program's stdin has received the body
write_input(c, bytes) == [c EXCEPT !.stdin = bytes]

\* SystemEncoder::compress, Body::Bytes: write the body to the program's stdin
\* and flush; a failure drops the child, which kill_on_drop kills
RsFeed ==
    /\ pc = "feed"
    /\ \E end \in {"ok", "write", "flush"} :
         IF end = "ok"
         THEN /\ child' = write_input(child, resp.body.bytes)
              /\ pc' = "wait"
              /\ UNCHANGED resp
         ELSE /\ child' = [child EXCEPT !.state = "killed", !.failed = end]
              /\ resp' = error_response(resp, IF end = "write" THEN WRITE_INPUT ELSE FLUSH_INPUT)
              /\ pc' = "ready"
    /\ UNCHANGED <<fsres, job, req, supported, via, builder, ncalls, built, out, flushes>>
    /\ UNCHANGED <<hmVars, rdVars, cfVars, svVars, ppVars>>

\* SystemEncoder::compress: wait_with_output, which fails or returns the
\* program's exit status and what it printed
RsWait ==
    /\ pc = "wait"
    /\ \E ok \in BOOLEAN, code \in ExitCodes, stdout \in Stdouts :
         IF ok
         THEN /\ child' = [child EXCEPT !.state = "exited", !.code = code, !.stdout = stdout]
              /\ resp' = compress_output(resp, code, stdout)
         ELSE /\ child' = [child EXCEPT !.state = "killed", !.failed = "wait"]
              /\ resp' = error_response(resp, WAIT_OUTPUT)
    /\ pc' = "ready"
    /\ UNCHANGED <<fsres, job, req, supported, via, builder, ncalls, built, out, flushes>>
    /\ UNCHANGED <<hmVars, rdVars, cfVars, svVars, ppVars>>

\* write_response: write_status_line
RsWriteStatusLine ==
    /\ pc = "ready"
    /\ out' = out \o status_line(resp.version, resp.status)
    /\ pc' = "status written"
    /\ UNCHANGED <<fsres, job, req, supported, via, builder, ncalls, resp, built, child, flushes>>
    /\ UNCHANGED <<hmVars, rdVars, cfVars, svVars, ppVars>>

\* write_response: write_headers
RsWriteHeaders ==
    /\ pc = "status written"
    /\ out' = out \o headers_bytes(resp.headers)
    /\ pc' = "headers written"
    /\ UNCHANGED <<fsres, job, req, supported, via, builder, ncalls, resp, built, child, flushes>>
    /\ UNCHANGED <<hmVars, rdVars, cfVars, svVars, ppVars>>

\* write_response: the body
RsWriteBody ==
    /\ pc = "headers written"
    /\ out' = out \o body_bytes(resp.body)
    /\ pc' = "body written"
    /\ UNCHANGED <<fsres, job, req, supported, via, builder, ncalls, resp, built, child, flushes>>
    /\ UNCHANGED <<hmVars, rdVars, cfVars, svVars, ppVars>>

\* write_response: flush
RsFlush ==
    /\ pc = "body written"
    /\ flushes' = flushes + 1
    /\ pc' = "done"
    /\ UNCHANGED <<fsres, job, req, supported, via, builder, ncalls, resp, built, child, out>>
    /\ UNCHANGED <<hmVars, rdVars, cfVars, svVars, ppVars>>

\* a write to or the flush of the connection fails: write_response returns the error
RsWriteError ==
    /\ pc \in {"ready", "status written", "headers written", "body written"}
    /\ pc' = "failed"
    /\ UNCHANGED <<fsres, job, req, supported, via, builder, ncalls, resp, built, child, out, flushes>>
    /\ UNCHANGED <<hmVars, rdVars, cfVars, svVars, ppVars>>

\* a slip that leaves kill_on_drop at its default: a dropped child keeps running
drop_child_detached(c) == c

\* dropping the tokio Child of a command built with kill_on_drop(true)
drop_child(c) == IF c.state = "running" THEN [c EXCEPT !.state = "killed"] ELSE c

\* SystemEncoder::compress: spawn_blocking hands the closure that runs
\* cmd.spawn() to the blocking pool, the task awaits its JoinHandle
CcRequestSpawn ==
    /\ pc = "built"
    /\ LET ce == extract_content_encoding(resp.headers)
       IN  /\ IsSome(ce)
           /\ IsSome(command(Unwrap(ce)))
    /\ job' = "queued"
    /\ pc' = "spawning"
    /\ UNCHANGED <<fsres, req, supported, via, builder, ncalls, resp, built, child, out, flushes>>
    /\ UNCHANGED <<hmVars, rdVars, cfVars, svVars, ppVars>>

\* the blocking pool runs the closure, whether or not its JoinHandle still
\* exists: cmd.spawn() starts the program or fails
CcClosureRun ==
    /\ job \in {"queued", "detached"}
    /\ \E ok \in BOOLEAN :
         child' = IF ok THEN [NoChild EXCEPT !.state = "running"]
                  ELSE [NoChild EXCEPT !.failed = "spawn"]
    /\ job' = IF job = "queued" THEN "finished" ELSE "orphaned"
    /\ UNCHANGED <<fsres, req, supported, pc, via, builder, ncalls, resp, built, out, flushes>>
    /\ UNCHANGED <<hmVars, rdVars, cfVars, svVars, ppVars>>

\* the task's await of the JoinHandle returns the closure's result
CcJoin ==
    /\ pc = "spawning"
    /\ job = "finished"
    /\ job' = "joined"
    /\ IF child.failed = ""
       THEN /\ pc' = IF resp.body.kind = "bytes" THEN "feed" ELSE "wait"
            /\ UNCHANGED resp
       ELSE /\ resp' = error_response(resp, SPAWN_PROGRAM)
            /\ pc' = "ready"
    /\ UNCHANGED <<fsres, req, supported, via, builder, ncalls, built, child, out, flushes>>
    /\ UNCHANGED <<hmVars, rdVars, cfVars, svVars, ppVars>>

\* the task running compress is cancelled or dropped at one of its awaits:
\* the future drops what it owns, the JoinHandle (with the closure's output,
\* if that is ready) or the Child
CcCancel ==
    /\ pc \in {"spawning", "feed", "wait"}
    /\ pc' = "cancelled"
    /\ IF pc = "spawning" /\ job = "queued"
       THEN /\ job' = "detached"
            /\ UNCHANGED child
       ELSE /\ child' = drop_child(child)
            /\ job' = IF job = "finished" THEN "dropped" ELSE job
    /\ UNCHANGED <<fsres, req, supported, via, builder, ncalls, resp, built, out, flushes>>
    /\ UNCHANGED <<hmVars, rdVars, cfVars, svVars, ppVars>>

\* the runtime drops the output of a closure whose JoinHandle is gone
CcDropOutput ==
    /\ job = "orphaned"
    /\ child' = drop_child(child)
    /\ job' = "dropped"
    /\ UNCHANGED <<fsres, req, supported, pc, via, builder, ncalls, resp, built, out, flushes>>
    /\ UNCHANGED <<hmVars, rdVars, cfVars, svVars, ppVars>>

CcNext ==
    \/ RsRoute \/ RsCompressSkip
    \/ CcRequestSpawn \/ CcClosureRun \/ CcJoin \/ RsFeed \/ RsWait
    \/ CcCancel \/ CcDropOutput

\* a slip that goes on with whatever read_request left behind
try_request_lenient(res) ==
    Some([method |-> res.method, target |-> res.target, version |-> res.version,
          headers |-> res.headers])

\* handle_connection's `?` on read_request: the Request, or None for an error
\* that is returned to the caller
try_request(res) ==
    IF res.tag = "ok"
    THEN Some([method |-> res.method, target |-> res.target, version |-> res.version,
               headers |-> res.headers])
    ELSE None

\* handle_connection: read_request returned the Request; Response::from_request
\* will consult Config::encodings()
CnRequestRead ==
    /\ pc = "reading"
    /\ rpc \in {"done", "failed"}
    /\ IsSome(try_request(rres))
    /\ req' = Unwrap(try_request(rres))
    /\ supported' \in ProbeResults
    /\ pc' = "start"
    /\ UNCHANGED <<fsres, job, via, builder, ncalls, resp, built, child, out, flushes>>
    /\ UNCHANGED <<hmVars, rdVars, cfVars, svVars, ppVars>>

\* handle_connection: read_request failed, the error is returned with the
\* context "read request"
CnReadFailed ==
    /\ pc = "reading"
    /\ rpc \in {"done", "failed"}
    /\ ~IsSome(try_request(rres))
    /\ pc' = "read failed"
    /\ UNCHANGED <<fsres, job, req, supported, via, builder, ncalls, resp, built, child, out, flushes>>
    /\ UNCHANGED <<hmVars, rdVars, cfVars, svVars, ppVars>>

CnNext ==
    \/ RdNext
    \/ CnRequestRead \/ CnReadFailed
    \/ RsRoute \/ RsCompressSkip
    \/ RsWriteStatusLine \/ RsWriteHeaders \/ RsWriteBody \/ RsFlush \/ RsWriteError

\* handle_connection with write_response's call of Response::compress spelled
\* out: read, route, spawn, feed, wait, write
PlNext ==
    \/ RdNext
    \/ CnRequestRead \/ CnReadFailed
    \/ RsRoute \/ RsCompressSkip \/ RsSpawn \/ RsFeed \/ RsWait
    \/ RsWriteStatusLine \/ RsWriteHeaders \/ RsWriteBody \/ RsFlush \/ RsWriteError

RsRest ==
    /\ via = "none"
    /\ builder = NoBuilder
    /\ ncalls = 0
    /\ resp = NoResponse
    /\ built = NoResponse
    /\ child = NoChild
    /\ out = <<>>
    /\ flushes = 0
    /\ fsres = None
    /\ job = "none"

RsInit ==
    /\ req \in Requests
    /\ supported \in ProbeResults
    /\ pc = "start"
    /\ RsRest

\* the component at rest, for the specifications of the other components
RsIdle ==
    /\ req = Req("Get", ROOT, <<>>)
    /\ supported = {}
    /\ pc = "idle"
    /\ RsRest

\* the response side while handle_connection is still reading the request
CnInit ==
    /\ req = Req("Get", ROOT, <<>>)
    /\ supported = {}
    /\ pc = "reading"
    /\ RsRest

HmIdleInit ==
    /\ hmb = <<>>
    /\ hm = None
    /\ hmOut = [HmIdle EXCEPT !.op = "idle"]

RsNext ==
    \/ RsRoute
    \/ RsApiFromRequest \/ RsApiStatus \/ RsApiHeader
    \/ RsApiBuild \/ RsApiPlain \/ RsApiEmpty \/ RsApiFile
    \/ RsCompressSkip \/ RsCompressNoProgram \/ RsSpawn \/ RsFeed \/ RsWait
    \/ RsWriteStatusLine \/ RsWriteHeaders \/ RsWriteBody \/ RsFlush \/ RsWriteError

----------------------------------------------------------------------------
(* Config::encodings (src/config.rs)                                       *)

\* the number of tasks that call Config::encodings
MaxTasks == 3

Tasks == 1..MaxTasks

\* OnceLock::get_or_init, fast path: the value if the cell is initialised,
\* otherwise on to OnceLock::initialize
CfCall(t) ==
    /\ tpc[t] = "idle"
    /\ IF once.state = "complete"
       THEN /\ seen' = [seen EXCEPT ![t] = Some(once.value)]
            /\ tpc' = [tpc EXCEPT ![t] = "returned"]
       ELSE /\ tpc' = [tpc EXCEPT ![t] = "initialize"]
            /\ UNCHANGED seen
    /\ UNCHANGED <<once, probes>>
    /\ UNCHANGED <<hmVars, rdVars, rsVars, svVars, ppVars>>

\* Once::call_once_force: the caller that finds the Once incomplete or
\* poisoned runs the closure; a caller that finds it running blocks; one that
\* finds it complete returns the value
CfEnter(t) ==
    /\ tpc[t] = "initialize"
    /\ once.state # "running"
    /\ IF once.state = "complete"
       THEN /\ seen' = [seen EXCEPT ![t] = Some(once.value)]
            /\ tpc' = [tpc EXCEPT ![t] = "returned"]
            /\ UNCHANGED once
       ELSE /\ once' = [once EXCEPT !.state = "running"]
            /\ tpc' = [tpc EXCEPT ![t] = "probing"]
            /\ UNCHANGED seen
    /\ UNCHANGED probes
    /\ UNCHANGED <<hmVars, rdVars, rsVars, svVars, ppVars>>

\* the closure: get_supported() returned Ok(set), the cell is set
CfProbeOk(t) ==
    /\ tpc[t] = "probing"
    /\ \E r \in ProbeOutcomes \ {ProbeErr} :
         /\ once' = [state |-> "complete", value |-> r.set]
         /\ seen' = [seen EXCEPT ![t] = Some(r.set)]
    /\ probes' = probes + 1
    /\ tpc' = [tpc EXCEPT ![t] = "returned"]
    /\ UNCHANGED <<hmVars, rdVars, rsVars, svVars, ppVars>>

\* the closure: get_supported() returned Err, expect() panics; the panic
\* unwinds through get_or_init, leaving the Once poisoned and the cell empty
CfProbePanic(t) ==
    /\ tpc[t] = "probing"
    /\ once' = [once EXCEPT !.state = "poisoned"]
    /\ probes' = probes + 1
    /\ tpc' = [tpc EXCEPT ![t] = "panicked"]
    /\ UNCHANGED seen
    /\ UNCHANGED <<hmVars, rdVars, rsVars, svVars, ppVars>>

\* a task that got the set calls Config::encodings again
CfAgain(t) ==
    /\ tpc[t] = "returned"
    /\ tpc' = [tpc EXCEPT ![t] = "idle"]
    /\ UNCHANGED <<once, probes, seen>>
    /\ UNCHANGED <<hmVars, rdVars, rsVars, svVars, ppVars>>

CfInit ==
    /\ once = [state |-> "incomplete", value |-> {}]
    /\ probes = 0
    /\ tpc = [t \in Tasks |-> "idle"]
    /\ seen = [t \in Tasks |-> None]

CfNext ==
    \E t \in Tasks : CfCall(t) \/ CfEnter(t) \/ CfProbeOk(t) \/ CfProbePanic(t) \/ CfAgain(t)

\* the component at rest, for the specifications of the other components
CfIdle ==
    /\ once = [state |-> "idle", value |-> {}]
    /\ probes = 0
    /\ tpc = <<>>
    /\ seen = <<>>

----------------------------------------------------------------------------
(* The binary's accept loop (src/main.rs)                                  *)

\* the number of clients that connect
MaxConns == 3

Conns == 1..MaxConns

NoConn == [state |-> "absent", sent |-> FALSE]

AtAccept == [at |-> "accept", c |-> 0]

\* a client connects: the connection waits in the listener's backlog
SvConnect(c) ==
    /\ conns[c].state = "absent"
    /\ conns' = [conns EXCEPT ![c].state = "queued"]
    /\ UNCHANGED mainpc
    /\ UNCHANGED <<hmVars, rdVars, rsVars, cfVars, ppVars>>

\* a client sends its request; a client that stalls never does
SvClientSend(c) ==
    /\ conns[c].state \in {"queued", "reading"}
    /\ ~conns[c].sent
    /\ conns' = [conns EXCEPT ![c].sent = TRUE]
    /\ UNCHANGED mainpc
    /\ UNCHANGED <<hmVars, rdVars, rsVars, cfVars, ppVars>>

\* main: listener.accept() yields the connection, set_nodelay succeeds,
\* handle_connection is spawned and main awaits its JoinHandle
SvAccept(c) ==
    /\ mainpc = AtAccept
    /\ conns[c].state = "queued"
    /\ conns' = [conns EXCEPT ![c].state = "reading"]
    /\ mainpc' = [at |-> "join", c |-> c]
    /\ UNCHANGED <<hmVars, rdVars, rsVars, cfVars, ppVars>>

\* main: set_nodelay fails on the accepted connection, `?` returns from main
SvNodelayError(c) ==
    /\ mainpc = AtAccept
    /\ conns[c].state = "queued"
    /\ conns' = [conns EXCEPT ![c].state = "dropped"]
    /\ mainpc' = [at |-> "exited", c |-> 0]
    /\ UNCHANGED <<hmVars, rdVars, rsVars, cfVars, ppVars>>

\* handle_connection: the request has arrived and is read, or reading fails
SvHandlerRead(c) ==
    /\ conns[c].state = "reading"
    /\ conns[c].sent
    /\ \E next \in {"responding", "failed"} : conns' = [conns EXCEPT ![c].state = next]
    /\ UNCHANGED mainpc
    /\ UNCHANGED <<hmVars, rdVars, rsVars, cfVars, ppVars>>

\* handle_connection: the response is written and flushed, or writing fails
SvHandlerRespond(c) ==
    /\ conns[c].state = "responding"
    /\ \E next \in {"done", "failed"} : conns' = [conns EXCEPT ![c].state = next]
    /\ UNCHANGED mainpc
    /\ UNCHANGED <<hmVars, rdVars, rsVars, cfVars, ppVars>>

\* main: the awaited JoinHandle resolves, the loop goes back to accept
SvJoin ==
    /\ mainpc.at = "join"
    /\ conns[mainpc.c].state \in {"done", "failed"}
    /\ mainpc' = AtAccept
    /\ UNCHANGED conns
    /\ UNCHANGED <<hmVars, rdVars, rsVars, cfVars, ppVars>>

SvInit ==
    /\ mainpc = AtAccept
    /\ conns = [c \in Conns |-> NoConn]

SvNext ==
    \/ SvJoin
    \/ \E c \in Conns :
         SvConnect(c) \/ SvClientSend(c) \/ SvAccept(c) \/ SvNodelayError(c)
            \/ SvHandlerRead(c) \/ SvHandlerRespond(c)

\* the component at rest, for the specifications of the other components
SvIdle ==
    /\ mainpc = "idle"
    /\ conns = <<>>

----------------------------------------------------------------------------
(* SystemEncoder::compress, Body::Bytes, and the program it runs, joined by *)
(* two pipes of bounded capacity (src/encoding.rs)                          *)

\* the capacity of a pipe
PipeCap == 2

\* the output the program holds before it has to write it
ProgBuf == 1

\* body sizes: from empty to one byte more than both pipes and the program hold
InputSizes == 0..(2 * PipeCap + ProgBuf + 1)

\* input.write_all(&bytes): a write to the pipe moves as many bytes as fit, and
\* waits while the pipe is full
PpSrvWrite ==
    /\ srv.at = "write"
    /\ srv.towrite > 0
    /\ stdinPipe < PipeCap
    /\ \E k \in 1..PipeCap :
         /\ k <= srv.towrite
         /\ k <= PipeCap - stdinPipe
         /\ srv' = [srv EXCEPT !.towrite = @ - k]
         /\ stdinPipe' = stdinPipe + k
    /\ UNCHANGED <<prog, stdoutPipe>>
    /\ UNCHANGED <<hmVars, rdVars, rsVars, cfVars, svVars>>

\* the whole body is written and flushed: the arm ends, which drops `input`
\* and closes the program's stdin; compress goes on to wait_with_output
PpSrvClose ==
    /\ srv.at = "write"
    /\ srv.towrite = 0
    /\ srv' = [srv EXCEPT !.at = "wait"]
    /\ UNCHANGED <<prog, stdinPipe, stdoutPipe>>
    /\ UNCHANGED <<hmVars, rdVars, rsVars, cfVars, svVars>>

\* wait_with_output: read what the program has written to its stdout
PpSrvRead ==
    /\ srv.at = "wait"
    /\ stdoutPipe > 0
    /\ srv' = [srv EXCEPT !.collected = @ + stdoutPipe]
    /\ stdoutPipe' = 0
    /\ UNCHANGED <<prog, stdinPipe>>
    /\ UNCHANGED <<hmVars, rdVars, rsVars, cfVars, svVars>>

\* wait_with_output: stdout is at its end and the program has exited
PpSrvReturn ==
    /\ srv.at = "wait"
    /\ stdoutPipe = 0
    /\ prog.at = "exited"
    /\ srv' = [srv EXCEPT !.at = "returned"]
    /\ UNCHANGED <<prog, stdinPipe, stdoutPipe>>
    /\ UNCHANGED <<hmVars, rdVars, rsVars, cfVars, svVars>>

\* the program reads a byte of its stdin and encodes it into a byte of output,
\* which it holds; it reads on only while it has room for the output
PpProgRead ==
    /\ prog.at = "run"
    /\ stdinPipe > 0
    /\ prog.pending < ProgBuf
    /\ stdinPipe' = stdinPipe - 1
    /\ prog' = [prog EXCEPT !.pending = @ + 1]
    /\ UNCHANGED <<srv, stdoutPipe>>
    /\ UNCHANGED <<hmVars, rdVars, rsVars, cfVars, svVars>>

\* the program writes a byte of output to its stdout, and waits while that
\* pipe is full
PpProgWrite ==
    /\ prog.at = "run"
    /\ prog.pending > 0
    /\ stdoutPipe < PipeCap
    /\ stdoutPipe' = stdoutPipe + 1
    /\ prog' = [prog EXCEPT !.pending = @ - 1]
    /\ UNCHANGED <<srv, stdinPipe>>
    /\ UNCHANGED <<hmVars, rdVars, rsVars, cfVars, svVars>>

\* the program finds its stdin closed and empty, has written all it had, exits
PpProgExit ==
    /\ prog.at = "run"
    /\ srv.at # "write"
    /\ stdinPipe = 0
    /\ prog.pending = 0
    /\ prog' = [prog EXCEPT !.at = "exited"]
    /\ UNCHANGED <<srv, stdinPipe, stdoutPipe>>
    /\ UNCHANGED <<hmVars, rdVars, rsVars, cfVars, svVars>>

\* after cmd.spawn(): the program runs, nothing is written yet
PpInit ==
    /\ srv \in {[at |-> "write", towrite |-> n, collected |-> 0] : n \in InputSizes}
    /\ prog = [at |-> "run", pending |-> 0]
    /\ stdinPipe = 0
    /\ stdoutPipe = 0

PpNext ==
    \/ PpSrvWrite \/ PpSrvClose \/ PpSrvRead \/ PpSrvReturn
    \/ PpProgRead \/ PpProgWrite \/ PpProgExit

\* the component at rest, for the specifications of the other components
PpIdle ==
    /\ srv = [at |-> "idle", towrite |-> 0, collected |-> 0]
    /\ prog = [at |-> "idle", pending |-> 0]
    /\ stdinPipe = 0
    /\ stdoutPipe = 0

----------------------------------------------------------------------------
(* Specifications                                                          *)

\* one connection's response: routing or direct building, compression, writing
Init == HmIdleInit /\ RdIdle /\ RsInit /\ CfIdle /\ SvIdle /\ PpIdle

Next == RsNext

Spec == Init /\ [][Next]_vars

\* RequestReader::read_request on one connection
InitReader == HmIdleInit /\ RdInit /\ rpath = "lib" /\ RsIdle /\ CfIdle /\ SvIdle /\ PpIdle

SpecReader == InitReader /\ [][RdNext]_vars

\* read_request scheduled fairly: the task is polled whenever it can go on,
\* bytes the peer has sent arrive, and a read that can complete does; nothing
\* forces a read of the socket to fail
SpecReaderLive ==
    /\ InitReader
    /\ [][RdNext]_vars
    /\ WF_vars(RdSockRead)
    /\ WF_vars(RdUntil)
    /\ WF_vars(RdUntilEof)
    /\ WF_vars(RdExact)
    /\ WF_vars(RdExactEof)

\* the binary's inline request reading (src/main.rs, handle_connection) on one connection
InitBinReader == HmIdleInit /\ RdInit /\ rpath = "bin" /\ RsIdle /\ CfIdle /\ SvIdle /\ PpIdle

SpecBinReader == InitBinReader /\ [][RdNext]_vars

\* a HeaderMap built once and then queried
InitHeaderMap == HmInit /\ RdIdle /\ RsIdle /\ CfIdle /\ SvIdle /\ PpIdle

SpecHeaderMap == InitHeaderMap /\ [][HmNext]_vars

\* one connection from its first byte to its last: handle_connection (src/lib.rs)
InitConnection == HmIdleInit /\ RdInit /\ rpath = "lib" /\ CnInit /\ CfIdle /\ SvIdle /\ PpIdle

SpecConnection == InitConnection /\ [][CnNext]_vars

\* one connection on which the client may send a second request behind the
\* first, and whose response may be compressed
InitPipeline ==
    /\ HmIdleInit
    /\ wire \in PipelinedWires /\ RdStart /\ rpath = "lib"
    /\ CnInit /\ CfIdle /\ SvIdle /\ PpIdle

SpecPipeline == InitPipeline /\ [][PlNext]_vars

\* Response::compress in a task that can be cancelled; the blocking pool runs
\* every closure it was given and the runtime drops every output nobody awaits
SpecCancel ==
    /\ Init
    /\ [][CcNext]_vars
    /\ WF_vars(CcClosureRun)
    /\ WF_vars(CcDropOutput)

\* tasks calling Config::encodings, some racing on first use
InitConfig == HmIdleInit /\ RdIdle /\ RsIdle /\ CfInit /\ SvIdle /\ PpIdle

SpecConfig == InitConfig /\ [][CfNext]_vars

\* the binary's accept loop and the handlers it spawns
InitServer == HmIdleInit /\ RdIdle /\ RsIdle /\ CfIdle /\ SvInit /\ PpIdle

SpecServer == InitServer /\ [][SvNext]_vars

\* compress feeding a program through pipes and collecting its output
InitPipes == HmIdleInit /\ RdIdle /\ RsIdle /\ CfIdle /\ SvIdle /\ PpInit

SpecPipes == InitPipes /\ [][PpNext]_vars

----------------------------------------------------------------------------
(* Reference definitions the claims are stated with                        *)

\* the pipeline has left Response::compress
Compressed == pc \in {"ready", "status written", "headers written", "body written", "done", "failed"}

\* the bytes write_response puts on the wire for response r
Serialized(r) == status_line(r.version, r.status) \o headers_bytes(r.headers) \o body_bytes(r.body)

\* encoding token `token` names an encoding of the supported set
Supports(token, supp) == \E e \in supp : encoding_bytes(e) = token

\* the request carries no Accept-Encoding header at all
NoAcceptEncoding(request) ==
    \A i \in 1..Len(request.headers) : ~matches(request.headers[i][1], ACCEPT_ENCODING)

\* lower case of an ASCII letter, every other byte unchanged
ToLower(b) == IF 65 <= b /\ b <= 90 THEN b + 32 ELSE b

\* two byte strings are equal up to the case of ASCII letters
EqualUpToCase(a, b) == Len(a) = Len(b) /\ \A i \in 1..Len(a) : ToLower(a[i]) = ToLower(b[i])

\* the bytes of s before the first CR LF
RECURSIVE FirstSegment(_)
FirstSegment(s) ==
    IF s = <<>> \/ starts_with(s, CRLF) THEN <<>>
    ELSE <<Head(s)>> \o FirstSegment(Tail(s))

\* the maximal runs of non-whitespace bytes of s, in order
RECURSIVE Tokens(_, _)
Tokens(s, cur) ==
    IF s = <<>> THEN (IF cur = <<>> THEN <<>> ELSE <<cur>>)
    ELSE IF is_ascii_whitespace(Head(s))
    THEN (IF cur = <<>> THEN <<>> ELSE <<cur>>) \o Tokens(Tail(s), <<>>)
    ELSE Tokens(Tail(s), Append(cur, Head(s)))

\* s without its leading whitespace bytes
RECURSIVE TrimStart(_)
TrimStart(s) ==
    IF s # <<>> /\ is_ascii_whitespace(Head(s)) THEN TrimStart(Tail(s)) ELSE s

----------------------------------------------------------------------------
(* Claims                                                                  *)

\* C1: when the compression program exits with a non-zero status, the response
\* that leaves Response::compress has status 500 and a text/plain body, and
\* the program's stdout is not its body.
C1_NonZeroExitYields500 ==
    (Compressed /\ child.state = "exited" /\ child.code # 0) =>
        /\ resp.status = INTERNAL_SERVER_ERROR
        /\ get(resp.headers, CONTENT_TYPE) = Some(TEXT_PLAIN)

\* C2: every response built through ResponseBuilder is written with a
\* Content-Length header, found by first case-insensitive match, whose value
\* is the decimal length of the body bytes written.
C2_ContentLengthIsBodyLength ==
    pc = "done" =>
        get(resp.headers, CONTENT_LENGTH) = Some(to_string(Len(body_bytes(resp.body))))

\* "HTTP/1.1 200 OK\r\nContent-Type: text/plain\r\nContent-Length: 3\r\n\r\nabc"
EchoAbcBytes ==
    <<72, 84, 84, 80, 47, 49, 46, 49, 32, 50, 48, 48, 32, 79, 75, 13, 10,
      67, 111, 110, 116, 101, 110, 116, 45, 84, 121, 112, 101, 58, 32,
      116, 101, 120, 116, 47, 112, 108, 97, 105, 110, 13, 10,
      67, 111, 110, 116, 101, 110, 116, 45, 76, 101, 110, 103, 116, 104, 58, 32, 51, 13, 10,
      13, 10, 97, 98, 99>>

\* C3: for GET /echo/abc without a selected encoding the bytes written are
\* exactly the status line, Content-Type, Content-Length, a blank line and
\* "abc", in that order, on every run.
C3_EchoBytesExact ==
    (pc = "done" /\ via = "handler" /\ req = Req("Get", ECHO_ABC, <<>>)) => out = EchoAbcBytes

\* C4: for every list of client encodings and every supported set, the
\* response built from the request records as Content-Encoding the first
\* encoding of the list that is supported, and none if there is none.
C4_FirstSupportedSelected ==
    (via = "handler" /\ pc # "start") =>
        \A l \in TokenLists :
            req.headers = <<<<ACCEPT_ENCODING, Join(l)>>>> =>
                LET hits == {i \in 1..Len(l) : Supports(l[i], supported)}
                IN  get(built.headers, CONTENT_ENCODING) =
                        IF hits = {} THEN None ELSE Some(l[Min(hits)])

\* C4 witness: "gzip, br" with only br supported has selected br
C4_Witness ==
    /\ via = "handler"
    /\ pc = "done"
    /\ req.headers = <<<<ACCEPT_ENCODING, Join(<<GZIP, BR>>)>>>>
    /\ supported = {"Br"}
    /\ get(built.headers, CONTENT_ENCODING) = Some(BR)

\* the request accepts nothing the server supports: no Accept-Encoding header,
\* or a list none of whose tokens names a supported encoding
NothingAcceptable ==
    \/ NoAcceptEncoding(req)
    \/ \E l \in TokenLists :
         /\ req.headers = <<<<ACCEPT_ENCODING, Join(l)>>>>
         /\ \A i \in 1..Len(l) : ~Supports(l[i], supported)

\* C5: when the request accepts nothing the server supports, the response has
\* no Content-Encoding header, no codec subprocess is spawned or attempted,
\* compress returns the response as built, and what is written is that
\* response with its original body.
C5_NothingAcceptableNoCompression ==
    (via = "handler" /\ pc # "start" /\ NothingAcceptable) =>
        /\ get(resp.headers, CONTENT_ENCODING) = None
        /\ child = NoChild
        /\ resp = built
        /\ req.target = ECHO_ABC => resp.body = BytesBody(<<97, 98, 99>>)
        /\ pc = "done" => out = Serialized(built)

\* C5 witness: "deflate, x" against a server supporting gzip and br, written
C5_Witness ==
    /\ via = "handler"
    /\ pc = "done"
    /\ req.headers = <<<<ACCEPT_ENCODING, Join(<<DEFLATE, <<120>>>>)>>>>
    /\ supported = {"Gzip", "Br"}
    /\ ends_with(out, <<13, 10, 13, 10, 97, 98, 99>>)

\* the request line on the wire is three tokens separated by whitespace runs
ThreeTokenLine(line) ==
    /\ line # <<>>
    /\ ~is_ascii_whitespace(line[1])
    /\ ~is_ascii_whitespace(line[Len(line)])
    /\ Len(Tokens(line, <<>>)) = 3

\* C6: a request line of three tokens separated by whitespace runs of any
\* length parses to exactly those three tokens.
C6_RequestLineTokens ==
    IsSome(reqline) =>
        LET line == FirstSegment(wire)
        IN  ThreeTokenLine(line) => Unwrap(reqline) = Tokens(line, <<>>)

\* C6 witness: "G" SP LF "/a:" CR HT "H" was parsed
C6_Witness ==
    /\ FirstSegment(wire) = <<71, 32, 10, 47, 97, 58, 13, 9, 72>>
    /\ reqline = Some(<<<<71>>, <<47, 97, 58>>, <<72>>>>)

\* the one header line of a request that has exactly one
OnlyHeaderLine == FirstSegment(split_off(wire, Len(FirstSegment(wire)) + 2))

\* C7: a header line name ":" whitespace value is stored with the name being
\* the bytes before the first colon and the value being what follows the
\* colon without its leading whitespace, the empty value included.
C7_HeaderValueTrimmed ==
    (rres.tag = "ok" /\ Len(rres.headers) = 1) =>
        LET h     == OnlyHeaderLine
            colon == Unwrap(position(h, is_colon))
        IN  rres.headers[1] = <<split_to(h, colon), TrimStart(split_off(h, colon + 1))>>

\* get as the claim states it: the value of the first entry whose name equals
\* the key up to ASCII letter case
RefGet(headers, key) ==
    LET hits == {i \in 1..Len(headers) : EqualUpToCase(headers[i][1], key)}
    IN  IF hits = {} THEN None ELSE Some(headers[Min(hits)][2])

\* C8: get returns the value of the first entry whose name equals the key up
\* to ASCII letter case, or none, and so the same for any two keys that are
\* equal up to ASCII letter case.
C8_GetIgnoresAsciiCase ==
    hmOut.op = "get" =>
        /\ hmOut.res = RefGet(Unwrap(hm), hmOut.key)
        /\ \A k \in HmNames :
             EqualUpToCase(k, hmOut.key) => get(Unwrap(hm), k) = hmOut.res

\* C8 witness: of two entries "aA" and "Aa", key "AA" got the first one's value
C8_Witness ==
    /\ hmOut.op = "get"
    /\ hmOut.key = <<65, 65>>
    /\ hm = Some(<<<<<<97, 65>>, <<49>>>>, <<<<65, 97>>, <<50>>>>>>)
    /\ hmOut.res = Some(<<49>>)

\* C9: with Content-Length n > 0, read_request returns exactly the n bytes
\* after the blank line, never consumes a byte beyond them, and never returns
\* a request when the stream holds fewer than n body bytes.
C9_BodyExactlyContentLength ==
    \A name \in ClNames, n \in 1..MaxBody :
        starts_with(wire, BodyHead(name, n)) =>
            LET h == Len(BodyHead(name, n))
            IN  /\ rpos <= h + n
                /\ rres.tag = "ok" =>
                     /\ rres.body = SubSeq(wire, h + 1, h + n)
                     /\ Len(rres.body) = n
                     /\ rpos = h + n
                /\ Len(wire) < h + n => rres.tag # "ok"
                /\ (rpc = "failed" /\ rres.cause = "unexpected eof") => Len(wire) < h + n

\* C9 witness: a body of MaxBody bytes was returned while a further byte of
\* the stream sits unconsumed in the BufReader
C9_Witness ==
    /\ rres.tag = "ok"
    /\ Len(rres.body) = MaxBody
    /\ bufd > 0
    /\ rpos < Len(wire)

\* Response::compress failed: no command, or the spawn or the program's I/O failed
CompressFailed ==
    /\ Compressed
    /\ \/ child.failed # ""
       \/ LET ce == extract_content_encoding(built.headers)
          IN  IsSome(ce) /\ Unwrap(ce) \in {"Compress", "Deflate"}

\* the description of the failure
FailureText ==
    CASE child.failed = "spawn" -> SPAWN_PROGRAM
      [] child.failed = "write" -> WRITE_INPUT
      [] child.failed = "flush" -> FLUSH_INPUT
      [] child.failed = "wait" -> WAIT_OUTPUT
      [] OTHER -> NOT_CONFIGURED

\* C10: when compression cannot run, compress returns a 500 response with
\* Content-Type: text/plain, the error description as body and its length as
\* Content-Length, and write_response writes exactly that response.
C10_CompressErrorIs500 ==
    CompressFailed =>
        /\ resp.status = INTERNAL_SERVER_ERROR
        /\ resp.version = built.version
        /\ get(resp.headers, CONTENT_TYPE) = Some(TEXT_PLAIN)
        /\ get(resp.headers, CONTENT_LENGTH) = Some(to_string(Len(FailureText)))
        /\ resp.body = BytesBody(FailureText)
        /\ pc = "done" =>
             /\ out = Serialized(resp)
             /\ ends_with(out, CRLF \o CRLF \o FailureText)
             /\ flushes = 1

\* C10 witness: the spawn failed and the 500 response was written and flushed
C10_Witness ==
    /\ pc = "done"
    /\ child.failed = "spawn"
    /\ resp.status = INTERNAL_SERVER_ERROR
    /\ ends_with(out, SPAWN_PROGRAM)

\* the request line on the wire is complete and has fewer than three tokens
ShortRequestLine == HasCRLF(wire) /\ Len(Tokens(FirstSegment(wire), <<>>)) < 3

\* C11: a request line of fewer than three whitespace-separated tokens, the
\* empty line included, makes read_request fail with an error tagged
\* "request line": no RequestLine and no Request is produced from it.
C11_ShortRequestLineIsError ==
    ShortRequestLine =>
        /\ reqline = None
        /\ rres.tag # "ok"
        /\ rpc \in {"done", "failed"} => (rres.tag = "err" /\ rres.ctx = "request line")

\* the three decimal digits of a status code
Digits3(code) == <<48 + (code \div 100), 48 + ((code \div 10) % 10), 48 + (code % 10)>>

\* version SP three-digit code SP reason CR LF
RefStatusLine(r) == r.version \o <<32>> \o Digits3(r.status) \o <<32>> \o as_str(r.status) \o <<13, 10>>

\* one line name ": " value CR LF per header, in stored order
RECURSIVE RefHeaderLines(_)
RefHeaderLines(headers) ==
    IF headers = <<>> THEN <<>>
    ELSE Head(headers)[1] \o <<58, 32>> \o Head(headers)[2] \o <<13, 10>> \o RefHeaderLines(Tail(headers))

\* everything up to and including the blank line
RefHead(r) == RefStatusLine(r) \o RefHeaderLines(r.headers) \o <<13, 10>>

\* the body bytes of the response
RefBody(r) == r.body.bytes

\* s is a prefix of t
IsPrefix(s, t) == Len(s) <= Len(t) /\ SubSeq(t, 1, Len(s)) = s

C13_InsertReplacesOrAppends ==
    hmOut.op = "insert" =>
        LET old  == Unwrap(hm)
            hits == {i \in 1..Len(old) : EqualUpToCase(old[i][1], hmOut.key)}
        IN  /\ get(hmOut.res, hmOut.key) = Some(hmOut.val)
            /\ hits = {} => hmOut.res = Append(old, <<hmOut.key, hmOut.val>>)
            /\ hits # {} =>
                 /\ Len(hmOut.res) = Len(old)
                 /\ hmOut.res[Min(hits)][2] = hmOut.val

\* the CR LF terminated segments of s, in order, each without its CR LF
RECURSIVE RefSegments(_)
RefSegments(s) ==
    IF ~HasCRLF(s) THEN <<>>
    ELSE <<FirstSegment(s)>> \o RefSegments(split_off(s, Len(FirstSegment(s)) + 2))

\* the header lines on the wire: the segments after the request line, up to the blank line
RECURSIVE UpToBlank(_)
UpToBlank(lines) ==
    IF lines = <<>> \/ Head(lines) = <<>> THEN <<>> ELSE <<Head(lines)>> \o UpToBlank(Tail(lines))

WireHeaderLines == UpToBlank(Tail(RefSegments(wire)))

\* the name of a header line: the bytes before its first colon
RefName(l) == SubSeq(l, 1, Min({i \in 1..Len(l) : l[i] = 58}) - 1)

\* the value of a header line: what follows the first colon, without leading whitespace
RefValue(l) == TrimStart(SubSeq(l, Min({i \in 1..Len(l) : l[i] = 58}) + 1, Len(l)))

\* the header lines named Content-Length, ignoring ASCII letter case
ContentLengthLines ==
    {i \in 1..Len(WireHeaderLines) :
        /\ \E j \in 1..Len(WireHeaderLines[i]) : WireHeaderLines[i][j] = 58
        /\ EqualUpToCase(RefName(WireHeaderLines[i]), CONTENT_LENGTH)}

\* a decimal number of one digit
IsDigit(v) == Len(v) = 1 /\ v[1] \in 48..57

\* C19: the number of body bytes read is the value of the first header, in
\* wire order, whose name is Content-Length ignoring ASCII letter case.
C19_FirstContentLengthDecides ==
    (rpc = "done" /\ ContentLengthLines # {}) =>
        LET v == RefValue(WireHeaderLines[Min(ContentLengthLines)])
        IN  IsDigit(v) => Len(rres.body) = v[1] - 48

\* C20: every completed read_segment has appended to the empty buffer exactly
\* the bytes of the stream up to and including the next CR LF, a bare LF not
\* ending the segment, and returned their count, so that the split at n - 2
\* yields the segment without its CR LF and the split of 2 more empties the
\* buffer.
C20_SegmentEndsAtFirstCRLF ==
    /\ Len(segs) <= Len(RefSegments(wire))
    /\ \A i \in 1..Len(segs) :
         LET seg == RefSegments(wire)[i]
         IN  /\ segs[i].buf = seg \o <<13, 10>>
             /\ segs[i].n = Len(seg) + 2
             /\ split_to(segs[i].buf, segs[i].n - 2) = seg
             /\ split_off(split_off(segs[i].buf, segs[i].n - 2), 2) = <<>>
    /\ rpc \in {"line", "header", "body", "done"} => buf = <<>>

\* C20 witness: the segment "G" SP LF "/a:" CR HT "H" CR LF, which holds a bare
\* LF and a bare CR, was returned whole
C20_Witness ==
    /\ Len(segs) >= 1
    /\ segs[1] = [n |-> 11, buf |-> <<71, 32, 10, 47, 97, 58, 13, 9, 72, 13, 10>>]
    /\ rpc \in {"header", "done"}

\* C14: however many tasks call Config::encodings, get_supported executes
\* exactly once, every caller observes the same set, and the set does not
\* change afterwards.
C14_ProbeExecutesOnce ==
    /\ probes <= 1
    /\ \A t \in Tasks : tpc[t] = "returned" => (probes = 1 /\ seen[t] = Some(once.value))
    /\ \A t, u \in Tasks : (IsSome(seen[t]) /\ IsSome(seen[u])) => seen[t] = seen[u]

\* C18: while one connection's handler is suspended waiting for request bytes
\* that have not arrived, the server accepts a second connection that is
\* waiting to be accepted.
C18_AcceptsWhileHandlerSuspended ==
    \A c, d \in Conns :
        (/\ conns[c].state = "reading"
         /\ ~conns[c].sent
         /\ conns[d].state = "queued"
         /\ mainpc.at # "exited") => ENABLED SvAccept(d)

\* the error ResponseBuilder::file met: that of opening the file or, if that
\* went well, that of querying its metadata
FileError == IF Unwrap(fsres).open # "ok" THEN Unwrap(fsres).open ELSE Unwrap(fsres).meta

\* C16: when opening the file or querying its metadata fails,
\* ResponseBuilder::file returns a response: 404 for not-found and
\* permission-denied, 500 for every other error, with an empty body and the
\* header Content-Length: 0.
C16_FileErrorsClassified ==
    (IsSome(fsres) /\ FileError # "ok") =>
        /\ pc \notin {"start", "building"}
        /\ built.status = IF FileError \in {"not_found", "denied"} THEN NOT_FOUND ELSE INTERNAL_SERVER_ERROR
        /\ built.body.len = 0
        /\ built.body.bytes = <<>>
        /\ \E i \in 1..Len(built.headers) : built.headers[i] = <<CONTENT_LENGTH, <<48>>>>
        /\ via = "handler" => get(built.headers, CONTENT_LENGTH) = Some(<<48>>)

\* C16 witness: the file opened but its metadata query failed with an error
\* that is neither not-found nor permission-denied, and file returned a 500
C16_Witness ==
    /\ IsSome(fsres)
    /\ Unwrap(fsres).open = "ok"
    /\ Unwrap(fsres).meta = "other"
    /\ built.status = INTERNAL_SERVER_ERROR
    /\ pc = "built"

\* the cancelled compress has nothing left in flight: no closure queued in the
\* blocking pool and no output waiting to be dropped
CancelSettled == pc = "cancelled" /\ job \in {"joined", "dropped"}

\* C15: once the task running compress is cancelled or dropped after the
\* subprocess was requested, the subprocess is killed: from every such state
\* the system reaches a state with nothing in flight and no subprocess
\* running, and no settled state has the subprocess running.
C15_CancelKillsSubprocess ==
    /\ [](CancelSettled => child.state # "running")
    /\ (pc = "cancelled") ~> (CancelSettled /\ child.state # "running")

\* C15 witness: cancelled during the blocking spawn, before the task ever held
\* the Child; the closure started the program all the same and it was killed
C15_Witness ==
    /\ pc = "cancelled"
    /\ job = "dropped"
    /\ child.state = "killed"
    /\ child.stdin = <<>>
    /\ resp = built

\* C17: when read_request fails, handle_connection returns the error and not
\* one byte has been written to the connection; bytes are only ever written
\* for a request that was read.
C17_NoBytesForUnreadRequest ==
    /\ rres.tag # "ok" => (out = <<>> /\ flushes = 0 /\ pc \in {"reading", "read failed"})
    /\ pc = "read failed" => (rres.tag = "err" /\ out = <<>> /\ flushes = 0)
    /\ out # <<>> => rres.tag = "ok"

\* C17 witness: the stream ended inside the body and handle_connection returned
C17_Witness ==
    /\ pc = "read failed"
    /\ rres.tag = "err"
    /\ rres.ctx = "body"
    /\ out = <<>>

\* what follows the first colon of a header line
AfterColon(l) == SubSeq(l, Min({i \in 1..Len(l) : l[i] = 58}) + 1, Len(l))

\* the pair a header line stands for: the bytes before its first colon, and
\* what follows the colon from its first non-whitespace byte on (all of it when
\* it holds none)
RefPair(l) ==
    <<RefName(l),
      IF \A i \in 1..Len(AfterColon(l)) : is_ascii_whitespace(AfterColon(l)[i])
      THEN AfterColon(l) ELSE TrimStart(AfterColon(l))>>

\* C21: the headers read_headers collects are, entry for entry, the pairs of
\* the header lines in wire order up to the first empty segment: a repeated
\* name makes a further entry, nothing is merged, reordered or dropped.
C21_HeadersInWireOrder ==
    rpc \in {"header", "body", "done"} =>
        /\ Len(rhdrs) <= Len(WireHeaderLines)
        /\ \A i \in 1..Len(rhdrs) : rhdrs[i] = RefPair(WireHeaderLines[i])
        /\ rpc \in {"body", "done"} => Len(rhdrs) = Len(WireHeaderLines)
        /\ rres.tag = "ok" => rres.headers = rhdrs

\* C21 witness: two headers of the same name, Content-Length: 2 then
\* Content-Length: 1, were returned as two entries in that order
C21_Witness ==
    /\ rres.tag = "ok"
    /\ rres.headers = <<<<CONTENT_LENGTH, <<50>>>>, <<CONTENT_LENGTH, <<49>>>>>>

\* the segments that end a header block: the empty one, or one without a colon
BlockStops(lines) ==
    {i \in 1..Len(lines) : lines[i] = <<>> \/ \A j \in 1..Len(lines[i]) : lines[i][j] # 58}

\* the number of bytes the first k of the segments take, their CR LF included
RECURSIVE SegEnd(_, _)
SegEnd(segments, k) == IF k = 0 THEN 0 ELSE SegEnd(segments, k - 1) + Len(segments[k]) + 2

\* C22: a non-empty segment without a colon in the header block makes
\* read_request fail with the parse error "invalid header", however many valid
\* headers came before it; no Request is returned and nothing is read from
\* the stream after that segment.
C22_ColonlessHeaderFails ==
    LET segments == RefSegments(wire)
        lines    == Tail(segments)
        stops    == BlockStops(lines)
        bad      == SegEnd(segments, Min(stops) + 1)
    IN  (segments # <<>> /\ stops # {} /\ lines[Min(stops)] # <<>>) =>
            /\ rres.tag # "ok"
            /\ rpos <= bad
            /\ rpc # "body" /\ rbody = <<>> /\ rneed = 0
            /\ rpos = bad => (rpc = "failed" /\ rres = Err("headers", "invalid header"))
            /\ rpc \in {"done", "failed"} => rres.tag = "err"

\* C22 witness: after the valid header Content-Length: 1 the segment "A" failed
\* the request, with the blank line and the body byte left unread
C22_Witness ==
    /\ rres = Err("headers", "invalid header")
    /\ rhdrs = <<<<CONTENT_LENGTH, <<49>>>>>>
    /\ rpos = Len(wire) - 3
    /\ bufd = 0

\* v is a decimal number, with an optional plus sign
IsNumber(v) ==
    LET d == IF v # <<>> /\ v[1] = 43 THEN Tail(v) ELSE v
    IN  d # <<>> /\ \A i \in 1..Len(d) : d[i] \in 48..57

\* v is a decimal number of value zero
IsZero(v) ==
    /\ IsNumber(v)
    /\ \A i \in 1..Len(v) : v[i] \in {43, 48}

\* among the header lines, those named Content-Length ignoring ASCII letter case
ContentLengthsOf(lines) ==
    {i \in 1..Len(lines) : EqualUpToCase(RefName(lines[i]), CONTENT_LENGTH)}

\* the body length derived from the header lines is zero: no Content-Length,
\* or the first one is zero or no number
ZeroBodyLength(lines) ==
    LET cls == ContentLengthsOf(lines)
    IN  \/ cls = {}
        \/ LET v == RefPair(lines[Min(cls)])[2] IN ~IsNumber(v) \/ IsZero(v)

EofBeforeCRLF ==
    LET segments == RefSegments(wire)
    IN  \/ segments = <<>>
        \/ \A i \in 2..Len(segments) : segments[i] # <<>>

\* C27: when the stream reaches end-of-file before a CR LF terminator was
\* seen, read_request eventually returns; it does not poll the exhausted
\* stream forever.
C27_EofEventuallyReturns ==
    (EofBeforeCRLF /\ rpos = Len(wire) /\ bufd = 0) ~> (rpc \in {"done", "failed"})

\* the encodings a list of tokens names, each once, in the order of their
\* first appearance
RECURSIVE RefFirstSeen(_, _)
RefFirstSeen(tokens, acc) ==
    IF tokens = <<>> THEN acc
    ELSE LET named == {i \in 1..Len(Encodings) : encoding_bytes(Encodings[i]) = Head(tokens)}
             fresh == named # {} /\ \A j \in 1..Len(acc) : acc[j] # Encodings[Min(named)]
         IN  RefFirstSeen(Tail(tokens), IF fresh THEN Append(acc, Encodings[Min(named)]) ELSE acc)

\* C25: the list parsed from an Accept-Encoding value holds each recognised
\* encoding at most once, at the position of its first appearance, with the
\* unknown tokens dropped and the order of the client's tokens kept.
C25_AcceptEncodingDeduplicated ==
    hmOut.op = "accept-encoding" =>
        /\ \A i, j \in 1..Len(hmOut.res) : hmOut.res[i] = hmOut.res[j] => i = j
        /\ \A l \in TokenLists : hmOut.val = Join(l) => hmOut.res = RefFirstSeen(l, <<>>)

RefDecimal(n) == IF n < 10 THEN <<48 + n>> ELSE <<48 + (n \div 10), 48 + (n % 10)>>

\* C24: when the program exits successfully, the response that leaves compress
\* has the program's output as its body and that output's length as
\* Content-Length; version, status, Content-Encoding and every other header
\* are as they were built, in the same order.
C24_CompressSuccessFrame ==
    (Compressed /\ child.state = "exited" /\ child.code = 0) =>
        /\ resp.body = [kind |-> "bytes", bytes |-> child.stdout, len |-> Len(child.stdout)]
        /\ resp.version = built.version
        /\ resp.status = built.status
        /\ Len(resp.headers) = Len(built.headers)
        /\ \A i \in 1..Len(built.headers) :
             IF EqualUpToCase(built.headers[i][1], CONTENT_LENGTH)
             THEN resp.headers[i] = <<CONTENT_LENGTH, RefDecimal(Len(child.stdout))>>
             ELSE resp.headers[i] = built.headers[i]
        /\ \E i \in 1..Len(resp.headers) :
             resp.headers[i] = <<CONTENT_LENGTH, RefDecimal(Len(child.stdout))>>
        /\ \E i \in 1..Len(resp.headers) :
             /\ resp.headers[i][1] = CONTENT_ENCODING
             /\ resp.headers[i] = built.headers[i]

\* C24 witness: "abc" was answered with the program's two bytes of output,
\* written under the three headers the response was built with
C24_Witness ==
    /\ pc = "done"
    /\ child.state = "exited"
    /\ child.code = 0
    /\ child.stdout = <<31, 139>>
    /\ built.body.bytes = <<97, 98, 99>>
    /\ Len(built.headers) = 3
    /\ ends_with(out, <<13, 10, 13, 10, 31, 139>>)

\* C30: the 500 response of a failed compression carries exactly the two
\* headers Content-Type: text/plain and Content-Length, no Content-Encoding,
\* and the version of the request.
C30_ErrorResponseHeaders ==
    CompressFailed =>
        /\ resp.status = INTERNAL_SERVER_ERROR
        /\ resp.headers = <<<<CONTENT_TYPE, TEXT_PLAIN>>, <<CONTENT_LENGTH, RefDecimal(Len(FailureText))>>>>
        /\ \A i \in 1..Len(resp.headers) : ~EqualUpToCase(resp.headers[i][1], CONTENT_ENCODING)
        /\ resp.version = req.version
        /\ pc = "done" => out = RefHead(resp) \o FailureText

\* C30 witness: a response built with Content-Encoding: gzip, whose body could
\* not be written to the program, was sent as a 500 with two headers
C30_Witness ==
    /\ pc = "done"
    /\ child.failed = "write"
    /\ \E i \in 1..Len(built.headers) : built.headers[i] = <<CONTENT_ENCODING, GZIP>>
    /\ Len(resp.headers) = 2

\* the number of wire bytes of the first request: through its blank line and
\* the body its first Content-Length announces, or all there is of a request
\* that is cut short
FirstRequestEnd ==
    LET segments == RefSegments(wire)
        lines    == Tail(segments)
        stops    == BlockStops(lines)
        blank    == SegEnd(segments, Min(stops) + 1)
        cls      == ContentLengthsOf(UpToBlank(lines))
        n        == IF cls = {} THEN 0 ELSE RefPair(lines[Min(cls)])[2][1] - 48
    IN  IF segments = <<>> \/ stops = {} \/ blank + n > Len(wire) THEN Len(wire) ELSE blank + n

\* C23: on one connection at most one request is read and at most one
\* response is written; no response byte is written before read_request has
\* returned the request, and none of a response carrying a Content-Encoding
\* before the program was spawned, was fed the body and has exited.
C23_StrictlySequential ==
    /\ rpos <= FirstRequestEnd
    /\ pc \notin {"reading", "read failed"} => (rpc = "done" /\ rres.tag = "ok" /\ rpos = FirstRequestEnd)
    /\ out # <<>> => (rpc = "done" /\ rres.tag = "ok")
    /\ child # NoChild => (rpc = "done" /\ rres.tag = "ok")
    /\ pc \in {"reading", "read failed", "start", "built", "feed", "wait", "ready"} => (out = <<>> /\ flushes = 0)
    /\ IsPrefix(out, RefHead(resp) \o RefBody(resp))
    /\ flushes = (IF pc = "done" THEN 1 ELSE 0)
    /\ pc = "done" => out = RefHead(resp) \o RefBody(resp)
    /\ (out # <<>> /\ \E i \in 1..Len(resp.headers) : resp.headers[i][1] = CONTENT_ENCODING) =>
         /\ child.state = "exited"
         /\ child.stdin = built.body.bytes
         /\ resp.body.bytes = child.stdout

\* C23 witness: the first request was answered with a compressed response
\* after the program was fed "abc" and exited, and the second request sits
\* unread on the connection
C23_Witness ==
    /\ pc = "done"
    /\ child.state = "exited"
    /\ child.stdin = <<97, 98, 99>>
    /\ out # <<>>
    /\ rpos = FirstRequestEnd
    /\ rpos < Len(wire)

\* compress waits in write_all: body bytes are left and the stdin pipe is full
ServerBlockedWriting == srv.at = "write" /\ srv.towrite > 0 /\ stdinPipe = PipeCap

\* the program waits in a write: it holds all the output it can and the
\* stdout pipe is full
ProgramBlockedWriting == prog.at = "run" /\ prog.pending = ProgBuf /\ stdoutPipe = PipeCap

\* C28: for a body of any size no state is reachable in which compress is
\* blocked writing the program's input while the program is blocked writing
\* output that nobody reads.
C28_NoPipeDeadlock == ~(ServerBlockedWriting /\ ProgramBlockedWriting)

\* the response was built with a Content-Encoding the negotiation selected
Negotiated == via = "handler" /\ pc # "start" /\ IsSome(get(built.headers, CONTENT_ENCODING))

\* C31: whatever whereis prints, the probed set holds only encodings that have
\* a program (gzip, br, zstd), never compress or deflate; so the encoding a
\* negotiated response carries has a command, and its compression never
\* fails with "program is not configured".
C31_NegotiatedHasProgram ==
    /\ supported \subseteq {"Gzip", "Br", "Zstd"}
    /\ \A enc \in supported : IsSome(program(enc)) /\ IsSome(command(enc))
    /\ Negotiated =>
         /\ \E enc \in supported :
              /\ get(built.headers, CONTENT_ENCODING) = Some(encoding_bytes(enc))
              /\ IsSome(command(enc))
         /\ Compressed =>
              /\ child # NoChild
              /\ resp.body.bytes # NOT_CONFIGURED

\* C31 witness: "deflate, gzip" against a probe that found gzip only was
\* answered with Content-Encoding: gzip, and the program was run
C31_Witness ==
    /\ Negotiated
    /\ req.headers = <<<<ACCEPT_ENCODING, Join(<<DEFLATE, GZIP>>)>>>>
    /\ supported = {"Gzip"}
    /\ get(built.headers, CONTENT_ENCODING) = Some(GZIP)
    /\ child.state = "exited"
    /\ pc = "done"

====
